---------------------------- MODULE Spec2Model ----------------------------
(***************************************************************************)
(* A model of the smart-storage-manager backend:                           *)
(*   - DiskManager.setup_manual / prepare_disk and the three configuration *)
(*     writers (disk_manager.py),                                          *)
(*   - DiskManager.detect_all_disks with format_size / parse_size,         *)
(*   - SnapRAIDManager.get_status and sync_with_progress                   *)
(*     (snapraid_manager.py), driven by run_snapraid_sync (app.py).        *)
(* Each subsystem has its own specification (SpecSetup, SpecDetect,        *)
(* SpecStatus, SpecSync); the variables of the other subsystems stay idle. *)
(***************************************************************************)
EXTENDS Integers, Sequences, FiniteSets, TLC

VARIABLES
    \* ---- DiskManager.setup_manual (one request) ----
    sm_pc,            \* position in setup_manual
    parity_disk,      \* argument parity_disk
    data_disks,       \* argument data_disks (a list)
    has_callback,     \* progress_callback is not None
    total_steps,      \* local total_steps
    current_step,     \* local current_step
    idx,              \* 0 while the parity disk is prepared, else the enumerate() index
    ppc,              \* position in prepare_disk's body
    prepared_data,    \* local prepared_data
    sink,             \* the calls received by progress_callback, in order
    ops,              \* the shell commands of the provisioning run (setup_automatic,
                      \* setup_manual), executed through run_command, in order
    first_failure,    \* the first command of the run that did not succeed
    fstab,            \* what the run appended to /etc/fstab, in order
    new_entries,      \* local new_entries of setup_fstab
    snapraid_conf,    \* content of /etc/snapraid.conf (the list given to writelines)
    result,           \* what setup_manual returned or raised
    \* ---- DiskManager.detect_all_disks ----
    dt_pc,            \* "idle" | "ready" | "done"
    root_out,         \* what run_command returns for the "df /" pipeline
    boot_out,         \* what run_command returns for the "df /boot" pipeline
    all_disks,        \* the enumerated device names, in lsblk order
    facts,            \* per device name: the outputs of the fact commands
    detected,         \* the dictionary detect_all_disks returned
    \* ---- SnapRAIDManager.get_status ----
    st_pc,            \* "idle" | "ready" | "done"
    raw_output,       \* stdout of "snapraid status", as whitespace separated items
    config_exists,    \* whether /etc/snapraid.conf exists
    status,           \* what get_status returned or raised
    \* ---- SnapRAIDManager.sync_with_progress + run_snapraid_sync ----
    sy_pc,            \* position of the generator
    proc_script,      \* lines the process has still to print
    proc_printed,     \* lines the process has printed so far
    proc_state,       \* "none" | "running" | "exited"
    exit_code,        \* the exit status the process ends with
    returncode,       \* process.returncode (-1 models None)
    pipe,             \* lines written to stdout and not yet read
    events,           \* events emitted to the consumer (socketio.emit), in order
    errors,           \* 'snapraid_error' events emitted by the background task
    \* ---- DiskManager.setup_automatic
    disk_list,        \* the disk_list argument of setup_automatic
    disk_sizes,       \* size in GiB of each disk (what lsblk prints when it runs well)
    size_keys,        \* the sort keys setup_automatic has computed so far
    \* ---- app.py: background tasks, concurrent requests, the host's files
    jobs,             \* background tasks run_snapraid_sync / run_snapraid_scrub
    maintenance,      \* events emitted by scheduled_maintenance
    requests,         \* setup requests being handled, each with its position
    runs,             \* provisioning runs started on this host
    fstab_before      \* /etc/fstab as the current run found it

setupVars  == <<sm_pc, parity_disk, data_disks, has_callback, total_steps,
                current_step, idx, ppc, prepared_data, sink, ops,
                first_failure, fstab, new_entries, snapraid_conf, result>>
detectVars == <<dt_pc, root_out, boot_out, all_disks, facts, detected>>
statusVars == <<st_pc, raw_output, config_exists, status>>
syncVars   == <<sy_pc, proc_script, proc_printed, proc_state, exit_code,
                returncode, pipe, events, errors>>
autoVars   == <<disk_list, disk_sizes, size_keys>>
hostVars   == <<jobs, maintenance, requests, runs, fstab_before>>
vars == <<setupVars, detectVars, statusVars, syncVars, autoVars, hostVars>>

\* ---------------------------------------------------------------- bounds

\* Longest data-disk list given to setup_manual.
MaxData == 2

\* Longest output of "snapraid status", in whitespace separated items.
MaxItems == 4

\* Most lines a sync process prints.
MaxLines == 3

\* Longest device enumeration.
MaxDevices == 2

\* Most requests (and scheduler runs) the backend gets at about the same
\* time.
MaxRequests == 2

\* ------------------------------------------------------------- utilities

SeqsUpTo(S, n) == UNION {[1..k -> S] : k \in 0..n}

Range(s) == {s[i] : i \in 1..Len(s)}

\* A percentage is kept exact, as the fraction num/den.
Pct(n, d) == [num |-> n, den |-> d]
PctLess(a, b) == a.num * b.den < b.num * a.den
PctIs(a, n) == a.num = n * a.den

(***************************************************************************)
(*                    DiskManager: provisioning                            *)
(***************************************************************************)

\* Device names a request may carry.
SetupDisks == {"sdb", "sdc", "sdd"}

\* How a shell command given to run_command may end: exit status 0, a
\* non-zero exit status, or an exception of subprocess.run (time-out).
\* run_command returns a text in all three cases: it never raises and
\* never looks at the exit status.
CmdOutcomes == {"ok", "nonzero", "timeout"}

NoFailure == [call |-> -1, stage |-> "none", disk |-> ""]

\* A variant of PrepareProgram: 'complete' is reported before the
\* partition is formatted.
PrepareProgramCompleteBeforeFormat ==
    << [kind |-> "cb",  name |-> "preparing",    pct |-> 0],
       [kind |-> "cmd", name |-> "umount",       pct |-> -1],
       [kind |-> "cb",  name |-> "wiping",       pct |-> 20],
       [kind |-> "cmd", name |-> "wipefs",       pct |-> -1],
       [kind |-> "cmd", name |-> "dd",           pct |-> -1],
       [kind |-> "cb",  name |-> "partitioning", pct |-> 40],
       [kind |-> "cmd", name |-> "mklabel",      pct |-> -1],
       [kind |-> "cb",  name |-> "creating",     pct |-> 60],
       [kind |-> "cmd", name |-> "mkpart",       pct |-> -1],
       [kind |-> "cmd", name |-> "partprobe",    pct |-> -1],
       [kind |-> "cmd", name |-> "sleep",        pct |-> -1],
       [kind |-> "cb",  name |-> "formatting",   pct |-> 80],
       [kind |-> "cb",  name |-> "complete",     pct |-> 100],
       [kind |-> "cmd", name |-> "mkfs",         pct |-> -1] >>

\* The body of prepare_disk, statement by statement: a guarded call of
\* progress_callback ("cb") or a call of run_command ("cmd").
PrepareProgram ==
    << [kind |-> "cb",  name |-> "preparing",    pct |-> 0],
       [kind |-> "cmd", name |-> "umount",       pct |-> -1],
       [kind |-> "cb",  name |-> "wiping",       pct |-> 20],
       [kind |-> "cmd", name |-> "wipefs",       pct |-> -1],
       [kind |-> "cmd", name |-> "dd",           pct |-> -1],
       [kind |-> "cb",  name |-> "partitioning", pct |-> 40],
       [kind |-> "cmd", name |-> "mklabel",      pct |-> -1],
       [kind |-> "cb",  name |-> "creating",     pct |-> 60],
       [kind |-> "cmd", name |-> "mkpart",       pct |-> -1],
       [kind |-> "cmd", name |-> "partprobe",    pct |-> -1],
       [kind |-> "cmd", name |-> "sleep",        pct |-> -1],
       [kind |-> "cb",  name |-> "formatting",   pct |-> 80],
       [kind |-> "cmd", name |-> "mkfs",         pct |-> -1],
       [kind |-> "cb",  name |-> "complete",     pct |-> 100] >>

\* The number of commands one call of prepare_disk executes.
PrepareCommands ==
    Cardinality({k \in 1..Len(PrepareProgram) : PrepareProgram[k].kind = "cmd"})

\* The commands of prepare_disk that destroy data on the disk.
DestructiveOps == {"umount", "wipefs", "dd", "mklabel", "mkpart", "mkfs"}

\* Position of a command in prepare_disk (0 when it is not one of them).
StageIndex(name) ==
    IF \E i \in 1..Len(PrepareProgram) : PrepareProgram[i].name = name
    THEN CHOOSE i \in 1..Len(PrepareProgram) : PrepareProgram[i].name = name
    ELSE 0

\* The step tags setup_manual itself gives to progress_callback.
OrchestratorSteps == {"parity", "data", "fstab", "mergerfs", "snapraid"}

\* label = f'disk{idx}'
DataLabel(i) == [base |-> "disk", n |-> i]

\* A variant of CurDisk: the data disks are taken from the end of the list.
CurDiskReversed ==
    IF idx = 0 THEN parity_disk ELSE data_disks[Len(data_disks) - idx + 1]

\* The disk and the label of the prepare_disk call in progress.
CurDisk == IF idx = 0 THEN parity_disk ELSE data_disks[idx]
CurLabel == IF idx = 0 THEN [base |-> "parity", n |-> 0]
                       ELSE DataLabel(idx)

\* progress_callback(step, message, percentage), guarded by
\* "if progress_callback:".
Emit(s, step, pct) ==
    IF has_callback THEN Append(s, [step |-> step, pct |-> pct]) ELSE s

\* emit_progress(step, message, percentage), the sink the routes pass as
\* progress_callback: the payload it emits as 'operation_progress'.  The
\* key 'percentage' is set under "if percentage:", so not for 0.
emit_progress(e) ==
    IF e.pct.num # 0
    THEN [step |-> e.step, percentage |-> e.pct]
    ELSE [step |-> e.step]

\* The percentage setup_manual reports: (current_step/total_steps)*100.
StepPercentage(step, total) == Pct(100 * step, total)

IdleSetup ==
    /\ sm_pc = "idle"
    /\ parity_disk = ""
    /\ data_disks = <<>>
    /\ has_callback = FALSE
    /\ total_steps = 0
    /\ current_step = 0
    /\ idx = 0
    /\ ppc = 0
    /\ prepared_data = <<>>
    /\ sink = <<>>
    /\ ops = <<>>
    /\ first_failure = NoFailure
    /\ fstab = <<>>
    /\ new_entries = <<>>
    /\ snapraid_conf = <<>>
    /\ result = "none"

\* A variant of TotalSteps: the preparation of the parity disk is not
\* counted.
TotalStepsWithoutParity(d) == Len(d) + 3

\* total_steps = 1 + len(data_disks) + 3
TotalSteps(d) == 1 + Len(d) + 3

\* setup_manual is entered: total_steps, the first increment of
\* current_step and the 'parity' progress event, up to the call of
\* prepare_disk(parity_disk, 'parity', progress_callback).  No command has
\* been run yet by setup_manual; ops is left to the caller.
EnterSetupManual(p, d, cb) ==
    /\ parity_disk' = p
    /\ data_disks' = d
    /\ has_callback' = cb
    /\ total_steps' = TotalSteps(d)
    /\ current_step' = 1
    /\ sink' = IF cb
               THEN <<[step |-> "parity",
                       pct |-> StepPercentage(1, TotalSteps(d))]>>
               ELSE <<>>
    /\ idx' = 0
    /\ ppc' = 1
    /\ sm_pc' = "prepare"
    /\ UNCHANGED <<prepared_data, first_failure, fstab, new_entries,
                   snapraid_conf, result>>

\* The parity disk of a manual plan.
ParityDisks == {"sdb"}

\* The data disks of a manual plan: any list over SetupDisks, the parity
\* disk among them or not, a disk named twice or not.  sdc and sdd are
\* alike (the code never looks into a name), so of two lists that differ
\* by exchanging them the one is taken that names sdc first.
DataPlans ==
    {d \in SeqsUpTo(SetupDisks, MaxData) :
        \A i \in 1..Len(d) :
            d[i] = "sdd" => \E j \in 1..(i - 1) : d[j] = "sdc"}

\* The calls of setup_manual: the route POST /api/setup/manual always
\* passes emit_progress as progress_callback (app.py:103); a call without
\* one is taken with the shortest plan.
ManualCalls ==
    {<<p, d, TRUE>> : p \in ParityDisks, d \in DataPlans}
    \cup {<<p, <<>>, FALSE>> : p \in ParityDisks}

\* A call setup_manual(parity_disk, data_disks, progress_callback).
SetupManualCall ==
    /\ sm_pc = "idle"
    /\ \E c \in ManualCalls : EnterSetupManual(c[1], c[2], c[3])
    /\ UNCHANGED ops
    /\ UNCHANGED <<detectVars, statusVars, syncVars, autoVars, hostVars>>

\* One "if progress_callback: progress_callback(...)" of prepare_disk.
PrepareCallback ==
    /\ sm_pc = "prepare"
    /\ ppc \in 1..Len(PrepareProgram)
    /\ PrepareProgram[ppc].kind = "cb"
    /\ sink' = Emit(sink, PrepareProgram[ppc].name,
                    Pct(PrepareProgram[ppc].pct, 1))
    /\ ppc' = ppc + 1
    /\ UNCHANGED <<sm_pc, parity_disk, data_disks, has_callback, total_steps,
                   current_step, idx, prepared_data, ops, first_failure,
                   fstab, snapraid_conf, result>>
    /\ UNCHANGED new_entries
    /\ UNCHANGED <<detectVars, statusVars, syncVars, autoVars, hostVars>>

\* One "self.run_command(...)" of prepare_disk: the command is executed,
\* its outcome is dropped, and the next statement follows whatever it was.
PrepareCommand ==
    /\ sm_pc = "prepare"
    /\ ppc \in 1..Len(PrepareProgram)
    /\ PrepareProgram[ppc].kind = "cmd"
    /\ \E outcome \in CmdOutcomes :
        /\ ops' = Append(ops, [op |-> PrepareProgram[ppc].name,
                               disk |-> CurDisk,
                               label |-> CurLabel,
                               call |-> idx])
        /\ first_failure' =
             IF first_failure = NoFailure /\ outcome # "ok"
             THEN [call |-> idx, stage |-> PrepareProgram[ppc].name,
                   disk |-> CurDisk]
             ELSE first_failure
    /\ ppc' = ppc + 1
    /\ UNCHANGED <<sm_pc, parity_disk, data_disks, has_callback, total_steps,
                   current_step, idx, prepared_data, sink, fstab,
                   snapraid_conf, result>>
    /\ UNCHANGED new_entries
    /\ UNCHANGED <<detectVars, statusVars, syncVars, autoVars, hostVars>>

\* prepare_disk returns True; for a data disk setup_manual records it in
\* prepared_data.
PrepareReturn ==
    /\ sm_pc = "prepare"
    /\ ppc = Len(PrepareProgram) + 1
    /\ prepared_data' =
         IF idx >= 1
         THEN Append(prepared_data,
                     [disk |-> CurDisk, label |-> CurLabel, number |-> idx])
         ELSE prepared_data
    /\ sm_pc' = "loop"
    /\ UNCHANGED <<parity_disk, data_disks, has_callback, total_steps,
                   current_step, idx, ppc, sink, ops, first_failure, fstab,
                   snapraid_conf, result>>
    /\ UNCHANGED new_entries
    /\ UNCHANGED <<detectVars, statusVars, syncVars, autoVars, hostVars>>

\* The next iteration of "for idx, disk in enumerate(data_disks, 1)":
\* current_step += 1, the 'data' progress event, then prepare_disk.
DataLoopNext ==
    /\ sm_pc = "loop"
    /\ idx < Len(data_disks)
    /\ idx' = idx + 1
    /\ current_step' = current_step + 1
    /\ sink' = Emit(sink, "data", StepPercentage(current_step + 1, total_steps))
    /\ ppc' = 1
    /\ sm_pc' = "prepare"
    /\ UNCHANGED <<parity_disk, data_disks, has_callback, total_steps,
                   prepared_data, ops, first_failure, fstab, snapraid_conf,
                   result>>
    /\ UNCHANGED new_entries
    /\ UNCHANGED <<detectVars, statusVars, syncVars, autoVars, hostVars>>

\* What run_command returns for a blkid that timed out.
UuidErrorText == "Error: Command 'blkid ...' timed out after 30 seconds"

\* get_uuid: the output of "blkid -s UUID -o value <disk>1" as run_command
\* returns it: the identifier of the file system on the partition (named
\* here by the disk), nothing when blkid finds none and exits non-zero,
\* the text of the exception when the command timed out.
get_uuid(disk, outcome) ==
    CASE outcome = "ok"      -> disk
      [] outcome = "nonzero" -> ""
      [] outcome = "timeout" -> UuidErrorText

\* The texts get_uuid may return for a disk.
UuidsOf(disk) == {get_uuid(disk, o) : o \in CmdOutcomes}

\* new_entries = ["\n# Smart Storage Manager"]
FstabHeader == [kind |-> "comment", dev |-> "", mnt |-> [base |-> "", n |-> 0]]

\* f"UUID={uuid}  {mount point}  ext4  defaults,noatime,nofail  0  2"
FstabEntry(uuid, mnt) == [kind |-> "mount", dev |-> uuid, mnt |-> mnt]

\* The lines setup_fstab appends to /etc/fstab when its blkid commands
\* end as in outcome: the header comment, the parity entry, one entry per
\* prepared data disk, each "UUID=<what get_uuid returned>  <mount point>
\* ...".
FstabEntries(parity, prepared, outcome) ==
    << FstabHeader,
       FstabEntry(get_uuid(parity, outcome[0]), [base |-> "parity", n |-> 0]) >>
    \o [i \in 1..Len(prepared) |->
          FstabEntry(get_uuid(prepared[i].disk, outcome[i]),
                     [base |-> "disk", n |-> prepared[i].number])]

\* A command of the configuration writers, as ops records it.
ConfigCommand(name, disk) ==
    [op |-> name, disk |-> disk, label |-> [base |-> "", n |-> 0], call |-> -1]

\* The line setup_mergerfs appends to /etc/fstab.
MergerfsEntry ==
    [kind |-> "mergerfs", dev |-> "/mnt/disk*", mnt |-> [base |-> "storage", n |-> 0]]

\* The list setup_snapraid_config gives to writelines: each element with
\* the newlines it starts with (lead) and ends with (trail).
SnapraidConfig(parity, prepared) ==
    << [kw |-> "#", n |-> 0, lead |-> 0, trail |-> 1],
       [kw |-> "parity", n |-> 0, lead |-> 0, trail |-> 1],
       [kw |-> "content", n |-> 0, lead |-> 1, trail |-> 0] >>
    \o [i \in 1..Len(prepared) |->
          [kw |-> "content", n |-> prepared[i].number, lead |-> 0, trail |-> 0]]
    \o << [kw |-> "", n |-> 0, lead |-> 1, trail |-> 0] >>
    \o [i \in 1..Len(prepared) |->
          [kw |-> "data", n |-> prepared[i].number, lead |-> 0, trail |-> 0]]
    \o << [kw |-> "# Exclusions", n |-> 0, lead |-> 1, trail |-> 0] >>
    \o [i \in 1..12 |-> [kw |-> "exclude", n |-> i, lead |-> 0, trail |-> 1]]
    \o << [kw |-> "block_size", n |-> 256, lead |-> 1, trail |-> 0],
          [kw |-> "autosave", n |-> 500, lead |-> 1, trail |-> 1] >>

\* A variant of WriteAppend: the file is opened with 'w'.
WriteAppendTruncating(content, entries) == entries

\* with open(path, 'a') as f: f.write(...): the file keeps what it has
\* and the text is added at its end.
WriteAppend(content, entries) == content \o entries

\* with open(path, 'w') as f: f.writelines(...): the file is emptied and
\* then holds the text alone.
WriteTruncate(content, chunks) == chunks

\* How a file operation of the configuration writers (os.makedirs, open)
\* may end.
IoOutcomes == {"ok", "OSError"}

\* The file operation raised: the exception leaves setup_manual.
RaiseOSError ==
    /\ sm_pc' = "done"
    /\ result' = "OSError"

\* The data loop is over: current_step += 1, the 'fstab' progress event,
\* and setup_fstab up to its first command: the os.makedirs calls.
StepFstab ==
    /\ sm_pc = "loop"
    /\ idx = Len(data_disks)
    /\ current_step' = current_step + 1
    /\ sink' = Emit(sink, "fstab", StepPercentage(current_step + 1, total_steps))
    /\ \E io \in IoOutcomes :
         IF io = "ok"
         THEN sm_pc' = "fstab_parity" /\ result' = result
         ELSE RaiseOSError
    /\ UNCHANGED <<parity_disk, data_disks, has_callback, total_steps, idx,
                   ppc, prepared_data, ops, first_failure, fstab,
                   new_entries, snapraid_conf>>
    /\ UNCHANGED <<detectVars, statusVars, syncVars, autoVars, hostVars>>

\* setup_fstab: parity_uuid = self.get_uuid(parity_disk), the read of
\* /etc/fstab, and new_entries with the header and the parity entry.
FstabParityUuid ==
    /\ sm_pc = "fstab_parity"
    /\ ops' = Append(ops, ConfigCommand("blkid", parity_disk))
    /\ \E outcome \in CmdOutcomes, io \in IoOutcomes :
         IF io = "ok"
         THEN /\ new_entries' =
                   << FstabHeader,
                      FstabEntry(get_uuid(parity_disk, outcome),
                                 [base |-> "parity", n |-> 0]) >>
              /\ sm_pc' = "fstab_data"
              /\ result' = result
         ELSE /\ RaiseOSError
              /\ UNCHANGED new_entries
    /\ UNCHANGED <<parity_disk, data_disks, has_callback, total_steps,
                   current_step, idx, ppc, prepared_data, sink,
                   first_failure, fstab, snapraid_conf>>
    /\ UNCHANGED <<detectVars, statusVars, syncVars, autoVars, hostVars>>

\* setup_fstab: one iteration of "for disk_info in data_disks":
\* disk_uuid = self.get_uuid(disk_info['disk']) and the entry of the disk.
FstabDataUuid ==
    /\ sm_pc = "fstab_data"
    /\ Len(new_entries) - 2 < Len(prepared_data)
    /\ LET disk_info == prepared_data[Len(new_entries) - 1]
       IN  /\ ops' = Append(ops, ConfigCommand("blkid", disk_info.disk))
           /\ \E outcome \in CmdOutcomes :
                new_entries' =
                    Append(new_entries,
                           FstabEntry(get_uuid(disk_info.disk, outcome),
                                      [base |-> "disk", n |-> disk_info.number]))
    /\ UNCHANGED <<sm_pc, parity_disk, data_disks, has_callback, total_steps,
                   current_step, idx, ppc, prepared_data, sink,
                   first_failure, fstab, snapraid_conf, result>>
    /\ UNCHANGED <<detectVars, statusVars, syncVars, autoVars, hostVars>>

\* setup_fstab: with open('/etc/fstab', 'a') as f:
\* f.write('\n'.join(new_entries)).
FstabWrite ==
    /\ sm_pc = "fstab_data"
    /\ Len(new_entries) - 2 = Len(prepared_data)
    /\ \E io \in IoOutcomes :
         IF io = "ok"
         THEN /\ fstab' = WriteAppend(fstab, new_entries)
              /\ sm_pc' = "fstab_mount"
              /\ result' = result
         ELSE /\ RaiseOSError
              /\ UNCHANGED fstab
    /\ new_entries' = <<>>
    /\ UNCHANGED <<parity_disk, data_disks, has_callback, total_steps,
                   current_step, idx, ppc, prepared_data, sink, ops,
                   first_failure, snapraid_conf>>
    /\ UNCHANGED <<detectVars, statusVars, syncVars, autoVars, hostVars>>

\* setup_fstab: self.run_command('mount -a'), and the return.
FstabMount ==
    /\ sm_pc = "fstab_mount"
    /\ ops' = Append(ops, ConfigCommand("mount -a", ""))
    /\ sm_pc' = "mergerfs"
    /\ UNCHANGED <<parity_disk, data_disks, has_callback, total_steps,
                   current_step, idx, ppc, prepared_data, sink,
                   first_failure, fstab, new_entries, snapraid_conf, result>>
    /\ UNCHANGED <<detectVars, statusVars, syncVars, autoVars, hostVars>>

\* current_step += 1 and the 'mergerfs' progress event, up to the call of
\* setup_mergerfs.
StepMergerfs ==
    /\ sm_pc = "mergerfs"
    /\ current_step' = current_step + 1
    /\ sink' = Emit(sink, "mergerfs", StepPercentage(current_step + 1, total_steps))
    /\ sm_pc' = "mergerfs_write"
    /\ UNCHANGED <<parity_disk, data_disks, has_callback, total_steps, idx,
                   ppc, prepared_data, ops, first_failure, fstab,
                   new_entries, snapraid_conf, result>>
    /\ UNCHANGED <<detectVars, statusVars, syncVars, autoVars, hostVars>>

\* setup_mergerfs: with open('/etc/fstab', 'a') as f:
\* f.write(f"\n{mergerfs_line}\n").
MergerfsWrite ==
    /\ sm_pc = "mergerfs_write"
    /\ \E io \in IoOutcomes :
         IF io = "ok"
         THEN /\ fstab' = WriteAppend(fstab, <<MergerfsEntry>>)
              /\ sm_pc' = "mergerfs_mount"
              /\ result' = result
         ELSE /\ RaiseOSError
              /\ UNCHANGED fstab
    /\ UNCHANGED <<parity_disk, data_disks, has_callback, total_steps,
                   current_step, idx, ppc, prepared_data, sink, ops,
                   first_failure, new_entries, snapraid_conf>>
    /\ UNCHANGED <<detectVars, statusVars, syncVars, autoVars, hostVars>>

\* setup_mergerfs: self.run_command('mount -a'), and the return.
MergerfsMount ==
    /\ sm_pc = "mergerfs_mount"
    /\ ops' = Append(ops, ConfigCommand("mount -a", ""))
    /\ sm_pc' = "snapraid"
    /\ UNCHANGED <<parity_disk, data_disks, has_callback, total_steps,
                   current_step, idx, ppc, prepared_data, sink,
                   first_failure, fstab, new_entries, snapraid_conf, result>>
    /\ UNCHANGED <<detectVars, statusVars, syncVars, autoVars, hostVars>>

\* current_step += 1 and the 'snapraid' progress event, up to the call of
\* setup_snapraid_config.
StepSnapraid ==
    /\ sm_pc = "snapraid"
    /\ current_step' = current_step + 1
    /\ sink' = Emit(sink, "snapraid", StepPercentage(current_step + 1, total_steps))
    /\ sm_pc' = "snapraid_write"
    /\ UNCHANGED <<parity_disk, data_disks, has_callback, total_steps, idx,
                   ppc, prepared_data, ops, first_failure, fstab,
                   new_entries, snapraid_conf, result>>
    /\ UNCHANGED <<detectVars, statusVars, syncVars, autoVars, hostVars>>

\* setup_snapraid_config: the list config is built and written with
\* open('/etc/snapraid.conf', 'w'); setup_manual returns the summary.
SnapraidWrite ==
    /\ sm_pc = "snapraid_write"
    /\ \E io \in IoOutcomes :
         IF io = "ok"
         THEN /\ snapraid_conf' =
                   WriteTruncate(snapraid_conf,
                                 SnapraidConfig(parity_disk, prepared_data))
              /\ result' = "success"
         ELSE /\ result' = "OSError"
              /\ UNCHANGED snapraid_conf
    /\ sm_pc' = "done"
    /\ UNCHANGED <<parity_disk, data_disks, has_callback, total_steps,
                   current_step, idx, ppc, prepared_data, sink, ops,
                   first_failure, fstab, new_entries>>
    /\ UNCHANGED <<detectVars, statusVars, syncVars, autoVars, hostVars>>

NextSetup ==
    \/ SetupManualCall
    \/ PrepareCallback
    \/ PrepareCommand
    \/ PrepareReturn
    \/ DataLoopNext
    \/ StepFstab
    \/ FstabParityUuid
    \/ FstabDataUuid
    \/ FstabWrite
    \/ FstabMount
    \/ StepMergerfs
    \/ MergerfsWrite
    \/ MergerfsMount
    \/ StepSnapraid
    \/ SnapraidWrite

(***************************************************************************)
(*                    DiskManager: detection                               *)
(***************************************************************************)

\* Device names lsblk may enumerate.
DetectNames == {"sda", "sdb", "zram0"}

\* self.excluded_types, and "disk.startswith(t)" for the names above.
excluded_types == <<"loop", "zram", "ram">>
StartsWith(name, t) ==
    \/ t = "loop" /\ name \in {"loop0"}
    \/ t = "zram" /\ name \in {"zram0"}
    \/ t = "ram"  /\ name \in {"ram0"}

\* self.min_size_gb
min_size_gb == 10

\* Sizes lsblk may report, in whole GiB (SIZE in bytes = n * 1024**3):
\* one below min_size_gb, one displayed in GB, and two displayed in TB of
\* which 1150 lies halfway between two tenths ("1.1 TB", as 1110).
SizeOutputs == {5, 500, 1110, 1150}

\* Output of the udevadm | grep 'ID_BUS=usb' pipeline.
UsbOutputs == {"", "ID_BUS=usb"}

\* Where a partition of the device is mounted ("" when nowhere).
MountPoints == {"", "/mnt/data", "/home"}
SystemPaths == {"/boot", "/home", "/var", "/usr"}

\* The commands detect_all_disks runs for a device, each of which may end
\* in an exception of subprocess.run (time-out) or, for 'type', in an
\* unreadable file.  The size command runs twice: for the size rule of the
\* if/elif chain ("size_rule") and for the size of disk_info ("size").
FactNames == {"usb", "size_rule", "size", "type", "model", "serial",
              "mounted", "system_mount"}

\* What run_command returns when subprocess.run raises TimeoutExpired for
\* the command of a fact, for a df pipeline of get_system_disk or for the
\* enumeration: f"Error: {str(e)}", which quotes the command.
ErrorText(fact) ==
    CASE fact = "df /" ->
           "Error: Command 'df / ...' timed out after 30 seconds"
      [] fact = "df /boot" ->
           "Error: Command 'df /boot ...' timed out after 30 seconds"
      [] fact = "enumeration" ->
           "Error: Command 'lsblk -dn -o NAME,TYPE ...' timed out after 30 seconds"
      [] fact = "usb" ->
           "Error: Command 'udevadm info ... | grep 'ID_BUS=usb'' timed out after 30 seconds"
      [] fact = "model" ->
           "Error: Command 'lsblk -dn -o MODEL ...' timed out after 30 seconds"
      [] fact = "serial" ->
           "Error: Command 'udevadm info ... | grep 'ID_SERIAL_SHORT=' | cut -d= -f2' timed out after 30 seconds"
      [] fact = "mounted" ->
           "Error: Command 'mount | grep ...' timed out after 30 seconds"
      [] fact = "system_mount" ->
           "Error: Command 'mount | grep ... | grep -E ...' timed out after 30 seconds"
      [] OTHER ->
           "Error: Command 'lsblk -bdn -o SIZE ...' timed out after 30 seconds"

ErrorTexts == {ErrorText(fact) : fact \in FactNames}

\* run_command for the command of a fact of device f: the stripped stdout,
\* or the error text when subprocess.run raised.
run_command(f, fact, stdout) ==
    IF fact \in f.failed THEN ErrorText(fact) ELSE stdout

\* The facts of a device all of whose commands ran.
DeviceFacts ==
    [usb_out : UsbOutputs, size_out : SizeOutputs, mount_point : MountPoints,
     model_out : {"WDC WD40EFRX"}, serial_out : {"WD-WCC4E1"},
     rotational : {"1"}, failed : {{}}]

\* The facts of a device any of whose commands may fail, each on its own.
FaultyDeviceFacts ==
    [usb_out : {""}, size_out : {500}, mount_point : {""},
     model_out : {"WDC WD40EFRX"}, serial_out : {"WD-WCC4E1"},
     rotational : {"0", "1"},
     failed : SUBSET FactNames]

\* The facts of n devices of which at most one has failing commands: the
\* others are of the same kind with all commands run.
FaultyHosts(n) ==
    LET healthy == [usb_out |-> "", size_out |-> 500, mount_point |-> "",
                    model_out |-> "WDC WD40EFRX", serial_out |-> "WD-WCC4E1",
                    rotational |-> "1", failed |-> {}]
    IN  {[i \in 1..n |-> healthy]} \cup
        {[i \in 1..n |-> IF i = k THEN f ELSE healthy] :
            k \in 1..n, f \in FaultyDeviceFacts}

\* get_system_disk: what run_command returned for the "df /" pipeline, and
\* for the "df /boot" one when the first returned nothing.
get_system_disk(root, boot) == IF root = "" THEN boot ELSE root

\* is_usb_disk: 'usb' in result.lower()
is_usb_disk(f) ==
    run_command(f, "usb", f.usb_out) \in {"ID_BUS=usb", ErrorText("usb")}

\* get_disk_size_gb, for one run of the size command: int(size_bytes) /
\* (1024**3), and 0 when the text is no integer (the error text of
\* run_command, or a negative size_out).
get_disk_size_gb(f, run) ==
    IF run \in f.failed \/ f.size_out < 0 THEN 0 ELSE f.size_out

\* get_disk_type: 'HDD' when /sys/block/<disk>/queue/rotational holds 1,
\* 'SSD' otherwise, 'Unknown' when the file cannot be read.
get_disk_type(f) ==
    IF "type" \in f.failed THEN "Unknown"
    ELSE IF f.rotational = "1" THEN "HDD" ELSE "SSD"

\* get_disk_model: self.run_command(cmd).strip()
get_disk_model(f) == run_command(f, "model", f.model_out)

\* get_disk_serial: self.run_command(cmd)
get_disk_serial(f) == run_command(f, "serial", f.serial_out)

\* is_mounted: the output of mount | grep '^/dev/<disk>' is not empty.
is_mounted(f) == run_command(f, "mounted", f.mount_point) # ""

\* is_system_mount: that output has a line with /boot, /home, /var or /usr.
is_system_mount(f) ==
    run_command(f, "system_mount",
                IF f.mount_point \in SystemPaths THEN f.mount_point ELSE "") # ""

\* The binary exponent of the float n/d, for n >= d: the largest e with
\* d * 2^e <= n.
RECURSIVE BinaryExponent(_, _)
BinaryExponent(n, d) == IF 2 * d > n THEN 0 ELSE 1 + BinaryExponent(n, 2 * d)

\* (n * 2^k) % d, by k doublings.
RECURSIVE ShiftedRemainder(_, _, _)
ShiftedRemainder(n, d, k) ==
    IF k = 0 THEN n % d ELSE (2 * ShiftedRemainder(n, d, k - 1)) % d

\* The float division n/d gives the double nearest to the quotient (53
\* significant bits, ties to the even mantissa): 1 when that double is
\* above the exact quotient, -1 when it is below, 0 when it is exact.
FloatError(n, d) ==
    LET k    == 52 - BinaryExponent(n, d)
        prev == ShiftedRemainder(n, d, k - 1)
        rem  == (2 * prev) % d
        odd  == (2 * prev) \div d
    IN  IF rem = 0 THEN 0
        ELSE IF 2 * rem > d THEN 1
        ELSE IF 2 * rem < d THEN -1
        ELSE IF odd = 1 THEN 1 ELSE -1

\* The tenths that f"{n/(10*d):.1f}" prints, for n >= 10 * d: '.1f' rounds
\* the binary value of the float, so a quotient that ends in 5 hundredths
\* goes up when the float is above it, down when the float is below it,
\* and to the even tenth when the float is exact.
RoundDiv(n, d) ==
    LET q   == n \div d
        r   == n % d
        err == FloatError(n, 10 * d)
    IN  IF 2 * r < d THEN q
        ELSE IF 2 * r > d THEN q + 1
        ELSE IF err > 0 THEN q + 1
        ELSE IF err < 0 THEN q
        ELSE IF q % 2 = 0 THEN q ELSE q + 1

\* format_size: "<x.y> TB" from 1000 up, "<x.y> GB" below; the text is
\* kept as its number in tenths and its unit.
format_size(size_gb) ==
    IF size_gb >= 1000
    THEN [tenths |-> RoundDiv(size_gb, 100), unit |-> "TB"]
    ELSE [tenths |-> 10 * size_gb, unit |-> "GB"]

\* parse_size: the first number of the text, times 1000 when the text has
\* 'TB'; the value is kept in tenths of a GB.
parse_size(size_str) ==
    IF size_str.unit = "TB" THEN size_str.tenths * 1000 ELSE size_str.tenths

\* A variant of ExcludedReason: the size rule is tested before the system
\* disk and usb rules.
ExcludedReasonSizeFirst(disk, f, system_disk) ==
    IF \E i \in 1..Len(excluded_types) : StartsWith(disk, excluded_types[i])
    THEN "virtual device"
    ELSE IF get_disk_size_gb(f, "size_rule") < min_size_gb THEN "too small"
    ELSE IF disk = system_disk THEN "system disk"
    ELSE IF is_usb_disk(f) THEN "external usb disk"
    ELSE IF is_system_mount(f) THEN "mounted on system path"
    ELSE ""

\* The if/elif chain of detect_all_disks: the reason of the exclusion, or
\* "" (None) when no rule matches.
ExcludedReason(disk, f, system_disk) ==
    IF \E i \in 1..Len(excluded_types) : StartsWith(disk, excluded_types[i])
    THEN "virtual device"
    ELSE IF disk = system_disk THEN "system disk"
    ELSE IF is_usb_disk(f) THEN "external usb disk"
    ELSE IF get_disk_size_gb(f, "size_rule") < min_size_gb THEN "too small"
    ELSE IF is_system_mount(f) THEN "mounted on system path"
    ELSE ""

\* The dictionary disk_info of one device.
DiskInfo(disk, f) ==
    [name |-> disk,
     size |-> format_size(get_disk_size_gb(f, "size")),
     type |-> get_disk_type(f),
     model |-> get_disk_model(f),
     serial |-> get_disk_serial(f),
     mounted |-> is_mounted(f)]

WithReason(info, reason) ==
    [name |-> info.name, size |-> info.size, type |-> info.type,
     model |-> info.model, serial |-> info.serial, mounted |-> info.mounted,
     reason |-> reason]

\* A variant of ClassifyUpTo: the "else" of the last if is missing, so an
\* excluded device is appended to available as well.
RECURSIVE ClassifyUpToMissingElse(_, _, _, _)
ClassifyUpToMissingElse(disks, fs, system_disk, k) ==
    IF k = 0 THEN [available |-> <<>>, excluded |-> <<>>]
    ELSE LET prev   == ClassifyUpToMissingElse(disks, fs, system_disk, k - 1)
             reason == ExcludedReason(disks[k], fs[k], system_disk)
             info   == DiskInfo(disks[k], fs[k])
         IN  IF disks[k] = "" THEN prev
             ELSE [available |-> Append(prev.available, info),
                   excluded |-> IF reason # ""
                                THEN Append(prev.excluded, WithReason(info, reason))
                                ELSE prev.excluded]

\* The loop over all_disks: the lists available and excluded after the
\* first k devices.
RECURSIVE ClassifyUpTo(_, _, _, _)
ClassifyUpTo(disks, fs, system_disk, k) ==
    IF k = 0 THEN [available |-> <<>>, excluded |-> <<>>]
    ELSE LET prev   == ClassifyUpTo(disks, fs, system_disk, k - 1)
             reason == ExcludedReason(disks[k], fs[k], system_disk)
             info   == DiskInfo(disks[k], fs[k])
         IN  IF disks[k] = "" THEN prev
             ELSE IF reason # ""
             THEN [available |-> prev.available,
                   excluded |-> Append(prev.excluded, WithReason(info, reason))]
             ELSE [available |-> Append(prev.available, info),
                   excluded |-> prev.excluded]

\* The key of available.sort: lambda x: self.parse_size(x['size']).
AvailableKey(x) == parse_size(x.size)

\* list.sort(key=..., reverse=True): descending by key, elements of equal
\* key in their original order.
InsertDesc(sorted, x) ==
    LET n == Len(sorted)
        \* x goes after every element whose key is >= its own
        pos == Cardinality({i \in 1..n : AvailableKey(sorted[i]) >= AvailableKey(x)})
    IN  SubSeq(sorted, 1, pos) \o <<x>> \o SubSeq(sorted, pos + 1, n)

RECURSIVE SortAvailable(_)
SortAvailable(s) ==
    IF s = <<>> THEN <<>>
    ELSE InsertDesc(SortAvailable(SubSeq(s, 1, Len(s) - 1)), s[Len(s)])

\* detect_all_disks, from the enumeration to the returned dictionary.
detect_all_disks(root, boot, disks, fs) ==
    LET system_disk == get_system_disk(root, boot)
        lists == ClassifyUpTo(disks, fs, system_disk, Len(disks))
    IN  [available |-> SortAvailable(lists.available),
         excluded |-> lists.excluded,
         system_disk |-> system_disk]

IdleDetect ==
    /\ dt_pc = "idle"
    /\ root_out = ""
    /\ boot_out = ""
    /\ all_disks = <<>>
    /\ facts = <<>>
    /\ detected = [available |-> <<>>, excluded |-> <<>>, system_disk |-> ""]


\* The host as one call of detect_all_disks finds it.
InitDetect ==
    /\ dt_pc = "ready"
    /\ root_out \in {"", "sda"}
    /\ boot_out \in {"", "sda"}
    /\ all_disks \in {d \in SeqsUpTo(DetectNames, MaxDevices) :
                        \A i, j \in 1..Len(d) : i # j => d[i] # d[j]}
    /\ facts \in [1..Len(all_disks) -> DeviceFacts]
    /\ detected = [available |-> <<>>, excluded |-> <<>>, system_disk |-> ""]

\* The host as a call of detect_all_disks finds it when its commands may
\* time out: a df pipeline of get_system_disk (run_command then returns
\* the error text, which is not empty), the commands of one of its
\* devices, or the enumeration.  The error text of the enumeration has no
\* newline, so split('\n') makes it the one device name; the commands for
\* that name find no device (no size, no model, no serial, no mount, no
\* /sys file), or time out as well.
InitDetectFaults ==
    /\ dt_pc = "ready"
    /\ root_out \in {"", "sda", ErrorText("df /")}
    /\ boot_out \in {"", "sda", ErrorText("df /boot")}
    /\ \/ /\ all_disks \in {d \in SeqsUpTo(DetectNames, MaxDevices) :
                              \A i, j \in 1..Len(d) : i # j => d[i] # d[j]}
          /\ facts \in FaultyHosts(Len(all_disks))
       \/ /\ all_disks = <<ErrorText("enumeration")>>
          /\ facts \in {<<f>> : f \in
                {g \in [usb_out : {""}, size_out : {-1}, mount_point : {""},
                        model_out : {""}, serial_out : {""},
                        rotational : {"1"}, failed : SUBSET FactNames] :
                    "type" \in g.failed}}
    /\ detected = [available |-> <<>>, excluded |-> <<>>, system_disk |-> ""]

\* GET /api/disks/detect: one call of detect_all_disks.
DetectAllDisks ==
    /\ dt_pc = "ready"
    /\ detected' = detect_all_disks(root_out, boot_out, all_disks, facts)
    /\ dt_pc' = "done"
    /\ UNCHANGED <<root_out, boot_out, all_disks, facts>>
    /\ UNCHANGED <<setupVars, statusVars, syncVars, autoVars, hostVars>>

NextDetect == DetectAllDisks

(***************************************************************************)
(*                    SnapRAIDManager: status                              *)
(***************************************************************************)

\* The output of "snapraid status" is kept as the sequence of its items,
\* the pieces between runs of whitespace ("No differences" is one item).
\* "1added" has no whitespace between the number and the word.
StatusItems ==
    {"1", "2", "added", "removed", "updated", "files", "1added",
     "No differences", "no differences", "Error:"}

\* The number an item ends with (\d+ at the end of the item), -1 if none.
TrailingNumber(item) ==
    CASE item = "1" -> 1
      [] item = "2" -> 2
      [] OTHER -> -1

\* The item starts with added, removed or updated.
IsChangeWord(item) == item \in {"added", "removed", "updated"}

\* The item starts with files.
IsFilesWord(item) == item \in {"files"}

\* The names bound in the module snapraid_manager when get_status runs:
\* "import subprocess", "import re", "from datetime import datetime" and
\* the class.
ModuleGlobals == {"subprocess", "re", "datetime", "SnapRAIDManager"}

\* 'No differences' in output
HasNoDifferences(output) ==
    \E i \in 1..Len(output) : output[i] = "No differences"

\* re.findall(r'(\d+)\s+(?:added|removed|updated)', output), as the
\* positions of the numbers.
ChangeMatches(output) ==
    {i \in 1..(Len(output) - 1) :
        TrailingNumber(output[i]) >= 0 /\ IsChangeWord(output[i + 1])}

\* sum(int(c) for c in changes)
RECURSIVE SumNumbers(_, _)
SumNumbers(output, at) ==
    IF at = {} THEN 0
    ELSE LET i == CHOOSE x \in at : TRUE
         IN  TrailingNumber(output[i]) + SumNumbers(output, at \ {i})

\* re.search(r'(\d+)\s+files', output)
FilesMatches(output) ==
    {i \in 1..(Len(output) - 1) :
        TrailingNumber(output[i]) >= 0 /\ IsFilesWord(output[i + 1])}

\* The analysis of the output in get_status.
ParseStatus(output, configured) ==
    LET sentinel == HasNoDifferences(output)
        fm == FilesMatches(output)
    IN  [outcome |-> "returned",
         configured |-> configured,
         last_sync |-> "None",
         protected |-> sentinel,
         changes |-> IF sentinel THEN 0
                     ELSE SumNumbers(output, ChangeMatches(output)),
         files_count |-> IF fm = {} THEN 0
                         ELSE TrailingNumber(
                                output[CHOOSE i \in fm : \A j \in fm : i <= j])]

\* get_status: building the dictionary evaluates os.path.exists, and the
\* global name os is looked up in the module; then the analysis.
get_status(output, configured) ==
    IF "os" \notin ModuleGlobals
    THEN [outcome |-> "raised", exception |-> "NameError"]
    ELSE ParseStatus(output, configured)

IdleStatus ==
    /\ st_pc = "idle"
    /\ raw_output = <<>>
    /\ config_exists = FALSE
    /\ status = [outcome |-> "pending"]

\* What one call of get_status finds: the output of the parity tool.
InitStatus ==
    /\ st_pc = "ready"
    /\ raw_output \in SeqsUpTo(StatusItems, MaxItems)
    /\ config_exists \in BOOLEAN
    /\ status = [outcome |-> "pending"]

\* One call of SnapRAIDManager.get_status.
GetStatus ==
    /\ st_pc = "ready"
    /\ status' = get_status(raw_output, config_exists)
    /\ st_pc' = "done"
    /\ UNCHANGED <<raw_output, config_exists>>
    /\ UNCHANGED <<setupVars, detectVars, syncVars, autoVars, hostVars>>

NextStatus == GetStatus

(***************************************************************************)
(*                    SnapRAIDManager: sync stream                         *)
(***************************************************************************)

\* Lines a process may print, each as its characters before the newline:
\* a word, a word in blanks, a blank line, a line of one space.
SampleLines == { <<"x">>, <<" ", "x", " ">>, <<>>, <<" ">> }

Whitespace == {" "}

\* Exit statuses of the process.
ExitCodes == {0, 1}

\* str.strip() of a line read from the pipe (the newline goes as well).
RECURSIVE LStrip(_)
LStrip(t) == IF t # <<>> /\ Head(t) \in Whitespace THEN LStrip(Tail(t)) ELSE t
RECURSIVE RStrip(_)
RStrip(t) ==
    IF t # <<>> /\ t[Len(t)] \in Whitespace
    THEN RStrip(SubSeq(t, 1, Len(t) - 1)) ELSE t
Strip(t) == RStrip(LStrip(t))

\* What readline returns: a line with its newline, or '' at end of file.
ReadLine(p) == IF p = <<>> THEN [text |-> <<>>, nl |-> FALSE]
                           ELSE [text |-> Head(p), nl |-> TRUE]

\* "if line:" - the text read, newline included, is not empty.
Truthy(line) == line.nl \/ line.text # <<>>

\* The event sync_with_progress yields for a line.
LineEvent(line) == [type |-> "sync", message |-> Strip(line.text)]

\* A variant of TerminalEvent: the terminal event of scrub_with_progress,
\* always of type complete.
TerminalEventAlwaysComplete(code) ==
    [type |-> "complete", message |-> <<"sync done">>, success |-> (code = 0)]

\* The event sync_with_progress yields after process.wait().
TerminalEvent(code) ==
    IF code = 0
    THEN [type |-> "complete", message |-> <<"sync done">>, success |-> TRUE]
    ELSE [type |-> "error", message |-> <<"sync failed">>, success |-> FALSE]

IdleSync ==
    /\ sy_pc = "idle"
    /\ proc_script = <<>>
    /\ proc_printed = <<>>
    /\ proc_state = "none"
    /\ exit_code = 0
    /\ returncode = -1
    /\ pipe = <<>>
    /\ events = <<>>
    /\ errors = <<>>

\* What the parity tool is going to do in one run of run_snapraid_sync.
InitSync ==
    /\ sy_pc = "ready"
    /\ proc_script \in SeqsUpTo(SampleLines, MaxLines)
    /\ exit_code \in ExitCodes
    /\ proc_printed = <<>>
    /\ proc_state = "none"
    /\ returncode = -1
    /\ pipe = <<>>
    /\ events = <<>>
    /\ errors = <<>>

\* run_snapraid_sync enters sync_with_progress: subprocess.Popen.
SyncStart ==
    /\ sy_pc = "ready"
    /\ proc_state' = "running"
    /\ sy_pc' = "reading"
    /\ UNCHANGED <<proc_script, proc_printed, exit_code, returncode, pipe, events>>
    /\ UNCHANGED errors
    /\ UNCHANGED <<setupVars, detectVars, statusVars, autoVars, hostVars>>

\* The process prints its next line into the pipe. The read end of the
\* pipe is open as long as the process runs, also when nobody reads any
\* more: a Popen object that is dropped while its child runs is kept by
\* the subprocess module, with its stdout.
ProcPrint ==
    /\ proc_state = "running"
    /\ proc_script # <<>>
    /\ pipe' = Append(pipe, Head(proc_script))
    /\ proc_printed' = Append(proc_printed, Head(proc_script))
    /\ proc_script' = Tail(proc_script)
    /\ UNCHANGED <<sy_pc, proc_state, exit_code, returncode, events>>
    /\ UNCHANGED errors
    /\ UNCHANGED <<setupVars, detectVars, statusVars, autoVars, hostVars>>

\* The process exits, which closes its end of the pipe.
ProcExit ==
    /\ proc_state = "running"
    /\ proc_script = <<>>
    /\ proc_state' = "exited"
    /\ UNCHANGED <<sy_pc, proc_script, proc_printed, exit_code, returncode,
                   pipe, events>>
    /\ UNCHANGED errors
    /\ UNCHANGED <<setupVars, detectVars, statusVars, autoVars, hostVars>>

\* One iteration of "for line in iter(process.stdout.readline, '')": the
\* event is yielded and run_snapraid_sync emits it.
SyncReadLine ==
    /\ sy_pc = "reading"
    /\ pipe # <<>>
    /\ events' = IF Truthy(ReadLine(pipe))
                 THEN Append(events, LineEvent(ReadLine(pipe)))
                 ELSE events
    /\ pipe' = Tail(pipe)
    /\ UNCHANGED <<sy_pc, proc_script, proc_printed, proc_state, exit_code,
                   returncode>>
    /\ UNCHANGED errors
    /\ UNCHANGED <<setupVars, detectVars, statusVars, autoVars, hostVars>>

\* readline returns '' (the pipe is empty and closed): the loop ends and
\* process.wait() sets returncode.
SyncEndOfFile ==
    /\ sy_pc = "reading"
    /\ pipe = <<>>
    /\ proc_state = "exited"
    /\ returncode' = exit_code
    /\ sy_pc' = "terminal"
    /\ UNCHANGED <<proc_script, proc_printed, proc_state, exit_code, pipe, events>>
    /\ UNCHANGED errors
    /\ UNCHANGED <<setupVars, detectVars, statusVars, autoVars, hostVars>>

\* The terminal event is yielded and emitted; the generator is exhausted.
SyncTerminal ==
    /\ sy_pc = "terminal"
    /\ events' = Append(events, TerminalEvent(returncode))
    /\ sy_pc' = "done"
    /\ UNCHANGED <<proc_script, proc_printed, proc_state, exit_code,
                   returncode, pipe>>
    /\ UNCHANGED errors
    /\ UNCHANGED <<setupVars, detectVars, statusVars, autoVars, hostVars>>

\* socketio.emit raises inside the loop of run_snapraid_sync, on a line
\* event just read or on the terminal event: the event is not delivered,
\* the loop is left, the generator is closed at its yield (it has no
\* try/finally and never calls terminate or kill) and the except branch
\* logs and emits 'snapraid_error'.  That emit may raise as well: the
\* exception then leaves the task and no error reaches the consumer.
\* Nobody reads the pipe any more; the process itself is left as it is and
\* goes on to its own end.  This is the only way a stream ends before the
\* process does.
SyncEmitFails ==
    /\ \/ /\ sy_pc = "reading"
          /\ pipe # <<>>
          /\ Truthy(ReadLine(pipe))
          /\ pipe' = Tail(pipe)
       \/ /\ sy_pc = "terminal"
          /\ pipe' = pipe
    /\ sy_pc' = "closed"
    /\ \E delivered \in BOOLEAN :
          errors' = IF delivered
                    THEN Append(errors, [error |-> "emit failed"])
                    ELSE errors
    /\ UNCHANGED <<proc_script, proc_printed, proc_state, exit_code,
                   returncode, events>>
    /\ UNCHANGED <<setupVars, detectVars, statusVars, autoVars, hostVars>>

NextSync ==
    \/ SyncStart
    \/ ProcPrint
    \/ ProcExit
    \/ SyncReadLine
    \/ SyncEndOfFile
    \/ SyncTerminal
    \/ SyncEmitFails

(***************************************************************************)
(*                    SnapRAIDManager: scrub                               *)
(***************************************************************************)

\* The event scrub_with_progress yields for a line it has read.
ScrubLineEvent(line) == [type |-> "scrub", message |-> Strip(line.text)]

\* A variant of ScrubTerminalEvent: the terminal event as
\* sync_with_progress builds it, of type error after a non-zero exit.
ScrubTerminalEventLikeSync(code) ==
    IF code = 0
    THEN [type |-> "complete", message |-> <<"scrub done">>, success |-> TRUE]
    ELSE [type |-> "error", message |-> <<"scrub failed">>, success |-> FALSE]

\* The event scrub_with_progress yields after process.wait().
ScrubTerminalEvent(code) ==
    [type |-> "complete", message |-> <<"scrub done">>, success |-> (code = 0)]

\* What the parity tool is going to do in one run of run_snapraid_scrub.
InitScrub ==
    /\ sy_pc = "scrub_ready"
    /\ proc_script \in SeqsUpTo(SampleLines, MaxLines)
    /\ exit_code \in ExitCodes
    /\ proc_printed = <<>>
    /\ proc_state = "none"
    /\ returncode = -1
    /\ pipe = <<>>
    /\ events = <<>>
    /\ errors = <<>>

\* run_snapraid_scrub enters scrub_with_progress: subprocess.Popen.
ScrubStart ==
    /\ sy_pc = "scrub_ready"
    /\ proc_state' = "running"
    /\ sy_pc' = "scrub_reading"
    /\ UNCHANGED <<proc_script, proc_printed, exit_code, returncode, pipe,
                   events, errors>>
    /\ UNCHANGED <<setupVars, detectVars, statusVars, autoVars, hostVars>>

\* One iteration of "for line in iter(process.stdout.readline, '')": the
\* event is yielded and run_snapraid_scrub emits it.
ScrubReadLine ==
    /\ sy_pc = "scrub_reading"
    /\ pipe # <<>>
    /\ events' = IF Truthy(ReadLine(pipe))
                 THEN Append(events, ScrubLineEvent(ReadLine(pipe)))
                 ELSE events
    /\ pipe' = Tail(pipe)
    /\ UNCHANGED <<sy_pc, proc_script, proc_printed, proc_state, exit_code,
                   returncode, errors>>
    /\ UNCHANGED <<setupVars, detectVars, statusVars, autoVars, hostVars>>

\* readline returns '' (the pipe is empty and closed): the loop ends and
\* process.wait() sets returncode.
ScrubEndOfFile ==
    /\ sy_pc = "scrub_reading"
    /\ pipe = <<>>
    /\ proc_state = "exited"
    /\ returncode' = exit_code
    /\ sy_pc' = "scrub_terminal"
    /\ UNCHANGED <<proc_script, proc_printed, proc_state, exit_code, pipe,
                   events, errors>>
    /\ UNCHANGED <<setupVars, detectVars, statusVars, autoVars, hostVars>>

\* The terminal event is yielded and emitted; the generator is exhausted.
ScrubTerminal ==
    /\ sy_pc = "scrub_terminal"
    /\ events' = Append(events, ScrubTerminalEvent(returncode))
    /\ sy_pc' = "scrub_done"
    /\ UNCHANGED <<proc_script, proc_printed, proc_state, exit_code,
                   returncode, pipe, errors>>
    /\ UNCHANGED <<setupVars, detectVars, statusVars, autoVars, hostVars>>

\* socketio.emit raises inside the loop of run_snapraid_scrub, on a line
\* event or on the terminal event: as SyncEmitFails.
ScrubEmitFails ==
    /\ \/ /\ sy_pc = "scrub_reading"
          /\ pipe # <<>>
          /\ Truthy(ReadLine(pipe))
          /\ pipe' = Tail(pipe)
       \/ /\ sy_pc = "scrub_terminal"
          /\ pipe' = pipe
    /\ sy_pc' = "closed"
    /\ \E delivered \in BOOLEAN :
          errors' = IF delivered
                    THEN Append(errors, [error |-> "emit failed"])
                    ELSE errors
    /\ UNCHANGED <<proc_script, proc_printed, proc_state, exit_code,
                   returncode, events>>
    /\ UNCHANGED <<setupVars, detectVars, statusVars, autoVars, hostVars>>

NextScrub ==
    \/ ScrubStart
    \/ ProcPrint
    \/ ProcExit
    \/ ScrubReadLine
    \/ ScrubEndOfFile
    \/ ScrubTerminal
    \/ ScrubEmitFails

(***************************************************************************)
(*                    DiskManager: automatic setup                         *)
(***************************************************************************)

\* The sizes of the disks of the host, in GiB: sdb and sdc are
\* of one size and sdd is smaller, by so little that format_size displays
\* all three alike ("1.0 TB").
AutoSizeMaps ==
    {[d \in SetupDisks |-> IF d = "sdd" THEN 1010 ELSE 1040]}

\* The lists a request may carry: at most MaxData + 1 disks in any order;
\* a disk named more than once is sdb.
AutoLists ==
    {l \in SeqsUpTo(SetupDisks, MaxData + 1) :
        \A i, j \in 1..Len(l) : (l[i] = l[j] /\ l[i] # "sdb") => i = j}

\* The sort key of setup_automatic, for one element of the list:
\* lambda d: self.get_disk_size_gb(d.replace('/dev/', '')).  The size
\* lsblk printed, or 0 when the text run_command returned is no integer:
\* nothing (lsblk exited non-zero, its message sent to /dev/null) or the
\* text of the exception (time-out).
AutoSortKey(d, sizes, outcome) == IF outcome = "ok" THEN sizes[d] ELSE 0

\* sorted(..., reverse=True): descending by key, elements of equal key in
\* their original order.  An element is a disk with the key computed for
\* it.
InsertDisk(sorted, x) ==
    LET n == Len(sorted)
        pos == Cardinality({i \in 1..n : sorted[i].key >= x.key})
    IN  SubSeq(sorted, 1, pos) \o <<x>> \o SubSeq(sorted, pos + 1, n)

\* The list sorted by the keys computed for its elements (keys[i] for
\* list[i]); each element with its key.
RECURSIVE SortedDisks(_, _)
SortedDisks(list, keys) ==
    IF list = <<>> THEN <<>>
    ELSE InsertDisk(SortedDisks(SubSeq(list, 1, Len(list) - 1), keys),
                    [disk |-> list[Len(list)], key |-> keys[Len(list)]])

IdleAuto ==
    /\ disk_list = <<>>
    /\ disk_sizes = [d \in SetupDisks |-> 0]
    /\ size_keys = <<>>

\* The request POST /api/setup/auto with its list, on a host with its
\* disks.
InitAuto ==
    /\ disk_list \in AutoLists
    /\ disk_sizes \in AutoSizeMaps
    /\ size_keys = <<>>

\* get_disk_size_gb runs "lsblk -bdn -o SIZE /dev/<disk>" through
\* run_command: the command as ops records it, before any call of
\* prepare_disk.
SizeCommand(disk) ==
    [op |-> "lsblk", disk |-> disk, label |-> [base |-> "", n |-> 0],
     call |-> -2]

\* setup_automatic(disk_list, emit_progress) is entered: the length
\* check.
SetupAutomaticCall ==
    /\ sm_pc = "idle"
    /\ IF Len(disk_list) < 2
       THEN /\ sm_pc' = "done"
            /\ result' = "Exception"
       ELSE /\ sm_pc' = "sizing"
            /\ result' = result
    /\ UNCHANGED <<parity_disk, data_disks, has_callback, total_steps,
                   current_step, idx, ppc, prepared_data, sink, ops,
                   first_failure, fstab, new_entries, snapraid_conf>>
    /\ UNCHANGED <<detectVars, statusVars, syncVars, autoVars, hostVars>>

\* sorted(disk_list, key=...) computes the key of the next element of the
\* list, in list order: one run of lsblk, however it ends.
SetupAutomaticSize ==
    /\ sm_pc = "sizing"
    /\ Len(size_keys) < Len(disk_list)
    /\ LET d == disk_list[Len(size_keys) + 1]
       IN  /\ ops' = Append(ops, SizeCommand(d))
           /\ \E outcome \in CmdOutcomes :
                size_keys' = Append(size_keys,
                                    AutoSortKey(d, disk_sizes, outcome))
    /\ UNCHANGED <<sm_pc, parity_disk, data_disks, has_callback, total_steps,
                   current_step, idx, ppc, prepared_data, sink,
                   first_failure, fstab, new_entries, snapraid_conf, result>>
    /\ UNCHANGED <<disk_list, disk_sizes>>
    /\ UNCHANGED <<detectVars, statusVars, syncVars, hostVars>>

\* Every key is known: the list is sorted and setup_manual is called with
\* sorted_disks[0] and sorted_disks[1:].  The keys are dropped with the
\* sort.
SetupAutomaticPlan ==
    /\ sm_pc = "sizing"
    /\ Len(size_keys) = Len(disk_list)
    /\ LET sorted == SortedDisks(disk_list, size_keys)
           sorted_disks == [i \in 1..Len(sorted) |-> sorted[i].disk]
       IN  EnterSetupManual(sorted_disks[1], Tail(sorted_disks), TRUE)
    /\ size_keys' = <<>>
    /\ UNCHANGED ops
    /\ UNCHANGED <<disk_list, disk_sizes>>
    /\ UNCHANGED <<detectVars, statusVars, syncVars, hostVars>>

NextAuto ==
    \/ SetupAutomaticCall
    \/ SetupAutomaticSize
    \/ SetupAutomaticPlan
    \/ PrepareCallback
    \/ PrepareCommand
    \/ PrepareReturn
    \/ DataLoopNext
    \/ StepFstab
    \/ FstabParityUuid
    \/ FstabDataUuid
    \/ FstabWrite
    \/ FstabMount
    \/ StepMergerfs
    \/ MergerfsWrite
    \/ MergerfsMount
    \/ StepSnapraid
    \/ SnapraidWrite

(***************************************************************************)
(*                    app.py: background tasks                             *)
(***************************************************************************)

IdleHost ==
    /\ jobs = <<>>
    /\ maintenance = <<>>
    /\ requests = <<>>
    /\ runs = 0
    /\ fstab_before = <<>>

\* socketio.start_background_task(target): the task is started; nothing is
\* looked at before.
StartBackgroundTask(kind, origin) ==
    Append(jobs, [kind |-> kind, origin |-> origin, state |-> "started"])

\* POST /api/snapraid/sync
SnapraidSyncRequest ==
    /\ Len(jobs) < MaxRequests
    /\ jobs' = StartBackgroundTask("sync", "user")
    /\ UNCHANGED <<maintenance, requests, runs, fstab_before>>
    /\ UNCHANGED <<setupVars, detectVars, statusVars, syncVars, autoVars>>

\* POST /api/snapraid/scrub
SnapraidScrubRequest ==
    /\ Len(jobs) < MaxRequests
    /\ jobs' = StartBackgroundTask("scrub", "user")
    /\ UNCHANGED <<maintenance, requests, runs, fstab_before>>
    /\ UNCHANGED <<setupVars, detectVars, statusVars, syncVars, autoVars>>

\* How often scheduled_maintenance has been entered.
MaintenanceRuns ==
    Cardinality({i \in 1..Len(maintenance) :
                    maintenance[i] = "maintenance_start"})

\* A maintenance has emitted 'maintenance_start' and not yet its closing
\* event.
MaintenanceInProgress ==
    /\ maintenance # <<>>
    /\ maintenance[Len(maintenance)] = "maintenance_start"

\* The cron job fires and scheduled_maintenance emits 'maintenance_start'
\* (before its try). The scheduler does not start the job again while an
\* instance of it runs.
ScheduledMaintenance ==
    /\ MaintenanceRuns < MaxRequests
    /\ ~MaintenanceInProgress
    /\ maintenance' = Append(maintenance, "maintenance_start")
    /\ UNCHANGED <<jobs, requests, runs, fstab_before>>
    /\ UNCHANGED <<setupVars, detectVars, statusVars, syncVars, autoVars>>

\* The try block of scheduled_maintenance: check_health, get_status, and
\* run_snapraid_sync() in the scheduler's thread when the status has
\* changes ('maintenance_complete' then follows the end of that sync); an
\* exception ends the maintenance with 'maintenance_error'.
MaintenanceBody ==
    /\ MaintenanceInProgress
    \* not while the maintenance waits in run_snapraid_sync()
    /\ \A i \in 1..Len(jobs) :
          jobs[i].origin = "scheduler" => jobs[i].state = "done"
    /\ \E output \in SeqsUpTo(StatusItems, 2), configured \in BOOLEAN :
         LET status_now == get_status(output, configured)
         IN  IF status_now.outcome = "raised"
             THEN /\ maintenance' = Append(maintenance, "maintenance_error")
                  /\ UNCHANGED jobs
             ELSE IF status_now.changes > 0
             THEN /\ jobs' = Append(jobs, [kind |-> "sync",
                                           origin |-> "scheduler",
                                           state |-> "started"])
                  /\ UNCHANGED maintenance
             ELSE /\ maintenance' = Append(maintenance, "maintenance_complete")
                  /\ UNCHANGED jobs
    /\ UNCHANGED <<requests, runs, fstab_before>>
    /\ UNCHANGED <<setupVars, detectVars, statusVars, syncVars, autoVars>>

\* The job at position i with its state replaced.
JobMoves(i, from, to) ==
    /\ jobs[i].state = from
    /\ jobs' = [jobs EXCEPT ![i].state = to]
    /\ UNCHANGED <<requests, runs, fstab_before>>
    /\ UNCHANGED <<setupVars, detectVars, statusVars, syncVars, autoVars>>

\* A task enters sync_with_progress / scrub_with_progress:
\* subprocess.Popen starts a snapraid process.
JobPopen ==
    /\ \E i \in 1..Len(jobs) : JobMoves(i, "started", "running")
    /\ UNCHANGED maintenance

\* The snapraid process of a task exits.
JobProcessExit ==
    /\ \E i \in 1..Len(jobs) : JobMoves(i, "running", "exited")
    /\ UNCHANGED maintenance

\* The task has read the output to its end, waited for the process and
\* emitted the terminal event. When it is the sync of a maintenance,
\* run_snapraid_sync returns to scheduled_maintenance, which emits
\* 'maintenance_complete'.
JobStreamEnd ==
    \E i \in 1..Len(jobs) :
        /\ JobMoves(i, "exited", "done")
        /\ maintenance' = IF jobs[i].origin = "scheduler"
                          THEN Append(maintenance, "maintenance_complete")
                          ELSE maintenance

NextJobs ==
    \/ SnapraidSyncRequest
    \/ SnapraidScrubRequest
    \/ ScheduledMaintenance
    \/ MaintenanceBody
    \/ JobPopen
    \/ JobProcessExit
    \/ JobStreamEnd

(***************************************************************************)
(*                    app.py: concurrent setup requests                    *)
(***************************************************************************)

\* The plans of concurrent requests: a parity disk and one data disk out
\* of two disks, as setup_manual gets them from either route (nothing
\* keeps the two from being the same disk, nor two requests from naming
\* the same disks).
RequestPlans == [1..2 -> {"sdb", "sdc"}]

\* POST /api/setup/manual or /api/setup/auto: the handler calls
\* disk_manager.setup_manual (the one DiskManager of the module) in its own
\* thread and enters prepare_disk for the parity disk; no lock is taken.
SetupRequest ==
    /\ Len(requests) < MaxRequests
    /\ \E plan \in RequestPlans :
         requests' = Append(requests, [plan |-> plan, call |-> 1, cmds |-> 0,
                                       stage |-> "prepare"])
    /\ UNCHANGED <<jobs, maintenance, runs, fstab_before>>
    /\ UNCHANGED <<setupVars, detectVars, statusVars, syncVars, autoVars>>

\* A request executes the next command of its prepare_disk call.
RequestCommand ==
    /\ \E i \in 1..Len(requests) :
         /\ requests[i].stage = "prepare"
         /\ requests[i].cmds < PrepareCommands
         /\ requests' = [requests EXCEPT ![i].cmds = @ + 1]
    /\ UNCHANGED <<jobs, maintenance, runs, fstab_before>>
    /\ UNCHANGED <<setupVars, detectVars, statusVars, syncVars, autoVars>>

\* prepare_disk returns: the request goes on to its next disk, or to
\* setup_fstab after the last one.
RequestPrepareReturn ==
    /\ \E i \in 1..Len(requests) :
         /\ requests[i].stage = "prepare"
         /\ requests[i].cmds = PrepareCommands
         /\ requests' =
              IF requests[i].call < Len(requests[i].plan)
              THEN [requests EXCEPT ![i].call = @ + 1, ![i].cmds = 0]
              ELSE [requests EXCEPT ![i].stage = "fstab"]
    /\ UNCHANGED <<jobs, maintenance, runs, fstab_before>>
    /\ UNCHANGED <<setupVars, detectVars, statusVars, syncVars, autoVars>>

\* The stage after a configuration stage of setup_manual.
AfterStage(stage) ==
    CASE stage = "fstab" -> "mergerfs"
      [] stage = "mergerfs" -> "snapraid"
      [] OTHER -> "done"

\* A request does setup_fstab, setup_mergerfs or setup_snapraid_config;
\* after the last the handler returns.
RequestConfigure ==
    /\ \E i \in 1..Len(requests) :
         /\ requests[i].stage \in {"fstab", "mergerfs", "snapraid"}
         /\ requests' = [requests EXCEPT ![i].stage = AfterStage(@)]
    /\ UNCHANGED <<jobs, maintenance, runs, fstab_before>>
    /\ UNCHANGED <<setupVars, detectVars, statusVars, syncVars, autoVars>>

NextRequests ==
    \/ SetupRequest
    \/ RequestCommand
    \/ RequestPrepareReturn
    \/ RequestConfigure

(***************************************************************************)
(*                    Provisioning runs, one after the other               *)
(***************************************************************************)

\* Most provisioning runs on one host.
MaxRuns == 2

\* /etc/fstab as the first run finds it: with the entry of the root
\* filesystem.
HostTables ==
    {<<[kind |-> "mount", dev |-> "sda1", mnt |-> [base |-> "/", n |-> 0]]>>}

\* The plans of the repeated runs: sdb as parity disk, and no data disk
\* or sdc.
RunPlans == {<<>>, <<"sdc">>}

\* The host before its first run.
InitRuns ==
    /\ sm_pc = "idle"
    /\ parity_disk = ""
    /\ data_disks = <<>>
    /\ has_callback = FALSE
    /\ total_steps = 0
    /\ current_step = 0
    /\ idx = 0
    /\ ppc = 0
    /\ prepared_data = <<>>
    /\ sink = <<>>
    /\ ops = <<>>
    /\ first_failure = NoFailure
    /\ fstab \in HostTables
    /\ new_entries = <<>>
    /\ snapraid_conf = <<>>
    /\ result = "none"
    /\ jobs = <<>>
    /\ maintenance = <<>>
    /\ requests = <<>>
    /\ runs = 0
    /\ fstab_before = fstab

\* POST /api/setup/manual when no run is in progress: the first request
\* with any plan, a later one with the same plan again.  The locals of
\* setup_manual are new; /etc/fstab and /etc/snapraid.conf are what the
\* runs before left.
RunStart ==
    /\ sm_pc \in {"idle", "done"}
    /\ runs < MaxRuns
    /\ \E p \in {"sdb"}, d \in RunPlans :
         /\ runs > 0 => (p = parity_disk /\ d = data_disks)
         /\ parity_disk' = p
         /\ data_disks' = d
         /\ total_steps' = TotalSteps(d)
         /\ sink' = <<[step |-> "parity",
                       pct |-> StepPercentage(1, TotalSteps(d))]>>
    /\ has_callback' = TRUE
    /\ current_step' = 1
    /\ idx' = 0
    /\ ppc' = 1
    /\ sm_pc' = "prepare"
    /\ prepared_data' = <<>>
    /\ ops' = <<>>
    /\ first_failure' = NoFailure
    /\ result' = "none"
    /\ runs' = runs + 1
    /\ fstab_before' = fstab
    /\ UNCHANGED <<fstab, new_entries, snapraid_conf, jobs, maintenance,
                   requests>>
    /\ UNCHANGED <<detectVars, statusVars, syncVars, autoVars>>

NextRuns ==
    \/ RunStart
    \/ PrepareCallback
    \/ PrepareCommand
    \/ PrepareReturn
    \/ DataLoopNext
    \/ StepFstab
    \/ FstabParityUuid
    \/ FstabDataUuid
    \/ FstabWrite
    \/ FstabMount
    \/ StepMergerfs
    \/ MergerfsWrite
    \/ MergerfsMount
    \/ StepSnapraid
    \/ SnapraidWrite

(***************************************************************************)
(*                    Specifications                                       *)
(***************************************************************************)

\* One request POST /api/setup/manual.
InitSetup == IdleSetup /\ IdleDetect /\ IdleStatus /\ IdleSync /\ IdleAuto
    /\ IdleHost
SpecSetup == InitSetup /\ [][NextSetup]_vars

\* One request GET /api/disks/detect.
InitDetectOnly == IdleSetup /\ InitDetect /\ IdleStatus /\ IdleSync /\ IdleAuto
    /\ IdleHost
SpecDetect == InitDetectOnly /\ [][NextDetect]_vars

\* One request GET /api/disks/detect on a host whose commands may time out.
InitDetectFaultsOnly ==
    IdleSetup /\ InitDetectFaults /\ IdleStatus /\ IdleSync /\ IdleAuto
        /\ IdleHost
SpecDetectFaults == InitDetectFaultsOnly /\ [][NextDetect]_vars

\* One call of get_status.
InitStatusOnly == IdleSetup /\ IdleDetect /\ InitStatus /\ IdleSync /\ IdleAuto
    /\ IdleHost
SpecStatus == InitStatusOnly /\ [][NextStatus]_vars

\* One background task run_snapraid_sync.
InitSyncOnly == IdleSetup /\ IdleDetect /\ IdleStatus /\ InitSync /\ IdleAuto
    /\ IdleHost
SpecSync == InitSyncOnly /\ [][NextSync]_vars

\* One background task run_snapraid_scrub.
InitScrubOnly == IdleSetup /\ IdleDetect /\ IdleStatus /\ InitScrub /\ IdleAuto
    /\ IdleHost
SpecScrub == InitScrubOnly /\ [][NextScrub]_vars

\* The sync and scrub requests and the scheduler, together.
InitJobs == IdleSetup /\ IdleDetect /\ IdleStatus /\ IdleSync /\ IdleAuto
    /\ IdleHost
SpecJobs == InitJobs /\ [][NextJobs]_vars

\* Setup requests handled at the same time.
InitRequests == IdleSetup /\ IdleDetect /\ IdleStatus /\ IdleSync /\ IdleAuto
    /\ IdleHost
SpecRequests == InitRequests /\ [][NextRequests]_vars

\* Provisioning runs on one host, one after the other.
InitRunsOnly == InitRuns /\ IdleDetect /\ IdleStatus /\ IdleSync /\ IdleAuto
SpecRuns == InitRunsOnly /\ [][NextRuns]_vars

\* One request POST /api/setup/auto.
InitAutoOnly == IdleSetup /\ IdleDetect /\ IdleStatus /\ IdleSync /\ InitAuto
    /\ IdleHost
SpecAuto == InitAutoOnly /\ [][NextAuto]_vars

\* The backend: any one of the operations above.
Init == InitSetup \/ InitDetectOnly \/ InitDetectFaultsOnly \/ InitStatusOnly
           \/ InitSyncOnly \/ InitScrubOnly \/ InitAutoOnly \/ InitJobs
           \/ InitRequests \/ InitRunsOnly
Next == NextSetup \/ NextDetect \/ NextStatus \/ NextSync \/ NextScrub
           \/ NextAuto \/ NextJobs \/ NextRequests \/ NextRuns
Spec == Init /\ [][Next]_vars

(***************************************************************************)
(*                    Properties: provisioning                             *)
(***************************************************************************)

\* The run of setup_manual is over and returned its summary.
SetupSucceeded == sm_pc = "done" /\ result = "success"

\* The progress events setup_manual itself emitted, in delivery order.
OrchestratorEvents == SelectSeq(sink, LAMBDA e : e.step \in OrchestratorSteps)

StrictlyIncreasing(evs) ==
    \A i \in 1..(Len(evs) - 1) : PctLess(evs[i].pct, evs[i + 1].pct)

\* C1: setup_manual called with fewer than 2 disks in total (a parity disk
\* and no data disk) fails with InsufficientDisks, and when it fails no
\* destructive disk operation and no configuration write has been executed.
C1_InsufficientDisksRejected ==
    (sm_pc # "idle" /\ 1 + Len(data_disks) < 2) =>
        /\ \A i \in 1..Len(ops) : ops[i].op \notin DestructiveOps
        /\ fstab = <<>>
        /\ snapraid_conf = <<>>
        /\ (sm_pc = "done" => result = "InsufficientDisks")

\* C2: in a run over a parity disk and n >= 1 data disks with a progress
\* sink, the sink receives exactly n + 4 events over the whole run, with
\* strictly increasing percentages, the last being 100.
C2_SinkReceivesNPlus4 ==
    (SetupSucceeded /\ has_callback /\ Len(data_disks) >= 1) =>
        /\ Len(sink) = Len(data_disks) + 4
        /\ StrictlyIncreasing(sink)
        /\ PctIs(sink[Len(sink)].pct, 100)

\* What holds of the sink in such a run: the events of setup_manual's own
\* steps (parity, data, fstab, mergerfs, snapraid) are n + 4, strictly
\* increasing and end with 100; the calls of prepare_disk add 6 events
\* each to the same sink.
OwnEventsNPlus4 ==
    (SetupSucceeded /\ has_callback /\ Len(data_disks) >= 1) =>
        /\ Len(OrchestratorEvents) = Len(data_disks) + 4
        /\ StrictlyIncreasing(OrchestratorEvents)
        /\ PctIs(OrchestratorEvents[Len(OrchestratorEvents)].pct, 100)
        /\ Len(sink) = (Len(data_disks) + 4) + 6 * (Len(data_disks) + 1)

\* C3: if the command of a stage of prepare_disk fails, prepare_disk raises
\* PreparationFailed for that stage and disk, and no later stage of that
\* disk is executed.
C3_StageFailureAborts ==
    first_failure # NoFailure =>
        /\ \A i \in 1..Len(ops) :
             ~ /\ ops[i].call = first_failure.call
               /\ StageIndex(ops[i].op) > StageIndex(first_failure.stage)
        /\ (sm_pc = "done" => result = "PreparationFailed")

(***************************************************************************)
(*                    Properties: sync stream                              *)
(***************************************************************************)

\* Every line the process printed has at least one character.
AllLinesNonEmpty == \A i \in 1..Len(proc_printed) : proc_printed[i] # <<>>

\* C4: when the process printed N non-empty lines and exited, the consumer
\* has received exactly N events of type sync, one per line in the order
\* printed, followed by exactly one terminal event, complete with success
\* true after exit status 0 and error after any other; in no state does an
\* event follow a terminal event.
C4_SyncStreamEvents ==
    /\ \A i \in 1..(Len(events) - 1) : events[i].type = "sync"
    /\ (sy_pc # "done" => \A i \in 1..Len(events) : events[i].type = "sync")
    /\ (sy_pc = "done" /\ AllLinesNonEmpty) =>
          /\ proc_script = <<>>
          /\ Len(events) = Len(proc_printed) + 1
          /\ \A i \in 1..Len(proc_printed) :
                /\ events[i].type = "sync"
                /\ events[i].message = Strip(proc_printed[i])
          /\ LET last == events[Len(events)]
             IN  IF exit_code = 0
                 THEN last.type = "complete" /\ last.success = TRUE
                 ELSE last.type = "error"

\* A process that printed 3 non-empty lines and exited with status 1: the
\* stream is over with 3 messages and the error event.
C4_Witness ==
    /\ sy_pc = "done"
    /\ Len(proc_printed) = 3
    /\ AllLinesNonEmpty
    /\ exit_code = 1
    /\ Len(events) = 4
    /\ events[4].type = "error"

(***************************************************************************)
(*                    Properties: status                                   *)
(***************************************************************************)

\* The text has the sentinel, in either spelling.
HasSentinel(output) ==
    \E i \in 1..Len(output) : output[i] \in {"No differences", "no differences"}

\* The sum of the numbers at positions from..Len(output) - 1 that are
\* directly followed by added, removed or updated.
RECURSIVE ChangesFrom(_, _)
ChangesFrom(output, from) ==
    IF from >= Len(output) THEN 0
    ELSE (IF output[from] \in {"1", "2"}
             /\ output[from + 1] \in {"added", "removed", "updated"}
          THEN (IF output[from] = "1" THEN 1 ELSE 2) ELSE 0)
         + ChangesFrom(output, from + 1)

\* The number of the first "<n> files" at or after position from, 0 if none.
RECURSIVE FilesFrom(_, _)
FilesFrom(output, from) ==
    IF from >= Len(output) THEN 0
    ELSE IF output[from] \in {"1", "2"} /\ output[from + 1] = "files"
         THEN (IF output[from] = "1" THEN 1 ELSE 2)
         ELSE FilesFrom(output, from + 1)

\* C5: get_status never fails: whatever the parity tool printed, empty
\* output and an error text included, it returns a summary and raises no
\* exception.
C5_StatusNeverFails ==
    st_pc = "done" => status.outcome = "returned"

\* C6: for a text with the "no differences" sentinel the summary has
\* protected = true and changes = 0, whatever counts the text also has.
C6_SentinelMeansProtected ==
    (st_pc = "done" /\ HasSentinel(raw_output)) =>
        /\ status.outcome = "returned"
        /\ status.protected = TRUE
        /\ status.changes = 0

\* C7: for a text without the sentinel, changes is the sum of every number
\* directly followed by added, removed or updated, protected is false, and
\* files_count is the number of the first "<n> files" (0 when there is none).
C7_ChangesAndFilesCount ==
    (st_pc = "done" /\ ~HasSentinel(raw_output)) =>
        /\ status.outcome = "returned"
        /\ status.changes = ChangesFrom(raw_output, 1)
        /\ status.protected = FALSE
        /\ status.files_count = FilesFrom(raw_output, 1)

(***************************************************************************)
(*                    Properties: detection                                *)
(***************************************************************************)

NamesOf(list) == {list[i].name : i \in 1..Len(list)}

\* The size lsblk reported for an enumerated device.
ActualSize(name) ==
    facts[CHOOSE k \in 1..Len(all_disks) : all_disks[k] = name].size_out

\* Position of a device in the enumeration.
EnumPos(name) == CHOOSE k \in 1..Len(all_disks) : all_disks[k] = name

\* C8: detect puts every enumerated device in exactly one of the lists
\* available and excluded, the names of both lists together are exactly the
\* enumerated set without duplicates, and a descriptor has a reason if and
\* only if it is in excluded.
C8_ExactlyOneVerdict ==
    dt_pc = "done" =>
        LET A == detected.available
            E == detected.excluded
        IN  /\ \A k \in 1..Len(all_disks) :
                 (all_disks[k] \in NamesOf(A)) # (all_disks[k] \in NamesOf(E))
            /\ NamesOf(A) \cup NamesOf(E) = Range(all_disks)
            /\ Len(A) + Len(E) = Len(all_disks)
            /\ \A i \in 1..Len(A) : "reason" \notin DOMAIN A[i]
            /\ \A j \in 1..Len(E) :
                 "reason" \in DOMAIN E[j] /\ E[j].reason # ""

\* A detection that found an available and an excluded device.
C8_Witness ==
    /\ dt_pc = "done"
    /\ Len(detected.available) >= 1
    /\ Len(detected.excluded) >= 1

\* The exclusion rules in their order, for the k-th enumerated device.
RuleMatches(r, k) ==
    CASE r = 1 -> all_disks[k] \in {"loop0", "zram0", "ram0"}
      [] r = 2 -> all_disks[k] = detected.system_disk
      [] r = 3 -> facts[k].usb_out = "ID_BUS=usb"
      [] r = 4 -> facts[k].size_out < 10
      [] r = 5 -> facts[k].mount_point \in {"/boot", "/home", "/var", "/usr"}

RuleReason ==
    <<"virtual device", "system disk", "external usb disk", "too small",
      "mounted on system path">>

\* C9: the reason detect reports for a device is that of the lowest-numbered
\* rule it matches, in the order virtual device, system disk, external usb
\* disk, too small, mounted on system path; a device that matches no rule
\* is available.
C9_FirstMatchWins ==
    dt_pc = "done" =>
        \A k \in 1..Len(all_disks) :
            LET m == {r \in 1..5 : RuleMatches(r, k)}
            IN  IF m = {}
                THEN all_disks[k] \in NamesOf(detected.available)
                ELSE \E j \in 1..Len(detected.excluded) :
                        /\ detected.excluded[j].name = all_disks[k]
                        /\ detected.excluded[j].reason =
                             RuleReason[CHOOSE r \in m : \A q \in m : r <= q]

\* A device that is the system disk and undersized (and usb, and on a
\* system path) is reported as system disk.
C9_Witness ==
    /\ dt_pc = "done"
    /\ \E k \in 1..Len(all_disks) :
          /\ RuleMatches(2, k) /\ RuleMatches(4, k)
          /\ RuleMatches(3, k) /\ RuleMatches(5, k)
          /\ \E j \in 1..Len(detected.excluded) :
                /\ detected.excluded[j].name = all_disks[k]
                /\ detected.excluded[j].reason = "system disk"

\* C10: available is ordered by the actual size of the disks, descending:
\* of two available disks the earlier one is not smaller, and two disks of
\* equal size keep their enumeration order.
C10_SortedByActualSize ==
    dt_pc = "done" =>
        LET A == detected.available
        IN  \A i, j \in 1..Len(A) :
                i < j =>
                    /\ ActualSize(A[i].name) >= ActualSize(A[j].name)
                    /\ (ActualSize(A[i].name) = ActualSize(A[j].name)
                            => EnumPos(A[i].name) < EnumPos(A[j].name))

(***************************************************************************)
(*                    Properties: automatic setup                          *)
(***************************************************************************)

\* How often disk d occurs in the list s.
Occurrences(d, s) == Cardinality({i \in 1..Len(s) : s[i] = d})

\* setup_automatic has passed its plan to setup_manual.
AutoDelegated == sm_pc \notin {"idle", "sizing"} /\ Len(disk_list) >= 2

\* C11: for any list of at least 2 disks, setup_automatic passes to
\* setup_manual the disk of largest capacity as parity and the remaining
\* disks as data disks in descending order of capacity; every input disk
\* occurs in the plan exactly as often as in the input.
C11_AutomaticPlan ==
    AutoDelegated =>
        /\ \A i \in 1..Len(disk_list) :
              disk_sizes[parity_disk] >= disk_sizes[disk_list[i]]
        /\ \A i, j \in 1..Len(data_disks) :
              i < j => disk_sizes[data_disks[i]] >= disk_sizes[data_disks[j]]
        /\ \A d \in SetupDisks :
              Occurrences(d, <<parity_disk>> \o data_disks)
                  = Occurrences(d, disk_list)

(***************************************************************************)
(*                    Properties: streams, continued                       *)
(***************************************************************************)

\* C12: when a running sync stream is ended before the process has
\* exited, the process is terminated and the stream ends with one terminal
\* cancellation event, not with a complete event; no process of the stream
\* is left running.
C12_CancelTerminatesProcess ==
    sy_pc = "closed" =>
        /\ proc_state = "exited"
        /\ events # <<>>
        /\ events[Len(events)].type = "cancelled"
        /\ \A i \in 1..Len(events) : events[i].type # "complete"

\* C13: a scrub stream whose process has exited ends with exactly one
\* terminal event, the last event of the stream; it is of type complete,
\* never error, and its success flag is true exactly when the exit status
\* is 0.
C13_ScrubTerminalEvent ==
    /\ \A i \in 1..Len(events) : events[i].type # "error"
    /\ \A i \in 1..(Len(events) - 1) : events[i].type = "scrub"
    /\ (sy_pc # "scrub_done" => \A i \in 1..Len(events) : events[i].type = "scrub")
    /\ sy_pc = "scrub_done" =>
          /\ proc_state = "exited"
          /\ events # <<>>
          /\ events[Len(events)].type = "complete"
          /\ events[Len(events)].success = (exit_code = 0)

\* A scrub whose process printed a line and exited with status 1 is over:
\* its last event is complete with success false.
C13_Witness ==
    /\ sy_pc = "scrub_done"
    /\ exit_code = 1
    /\ Len(proc_printed) >= 1
    /\ Len(events) >= 2
    /\ events[Len(events)].type = "complete"
    /\ events[Len(events)].success = FALSE

(***************************************************************************)
(*                    Properties: provisioning, continued                  *)
(***************************************************************************)

\* C14: within one run of setup_manual the percentages of all progress
\* events delivered to the sink, those of setup_manual and those of
\* prepare_disk alike, never decrease in delivery order.
C14_SinkPercentagesMonotone ==
    \A i \in 1..(Len(sink) - 1) : ~PctLess(sink[i + 1].pct, sink[i].pct)

\* C15: if the preparation of some disk fails during setup_manual, no disk
\* later in the plan is prepared, none of the configuration artifacts
\* (mount entries and pool entry in fstab, snapraid.conf) is written, and
\* the caller gets an error, not the success summary.
C15_FailedPreparationAbortsPlan ==
    first_failure # NoFailure =>
        /\ \A i \in 1..Len(ops) : ops[i].call <= first_failure.call
        /\ fstab = <<>>
        /\ snapraid_conf = <<>>
        /\ result # "success"

\* C16: in every plan setup_manual executes, the parity disk is not among
\* the data disks and no data disk is listed twice, so that within one run
\* no disk goes through prepare_disk more than once.
C16_EachDiskPreparedOnce ==
    sm_pc # "idle" =>
        /\ parity_disk \notin Range(data_disks)
        /\ \A i, j \in 1..Len(data_disks) :
              data_disks[i] = data_disks[j] => i = j
        /\ \A i, j \in 1..Len(ops) :
              ops[i].disk = ops[j].disk => ops[i].call = ops[j].call

(***************************************************************************)
(*                    Properties: detection, continued                     *)
(***************************************************************************)

\* The descriptors detect_all_disks returned, of both lists.
Descriptors == detected.available \o detected.excluded

\* The facts of the device of the given name.
FactsOf(name) == facts[CHOOSE i \in 1..Len(all_disks) : all_disks[i] = name]

\* C17: when a fact of a device cannot be read (command error or
\* time-out), detect_all_disks still returns one verdict for every device
\* and reports the fact degraded: type Unknown, model and serial empty,
\* not mounted, not USB; the failure text is never the value of a field of
\* a descriptor.
C17_FailedFactsDegrade ==
    dt_pc = "done" =>
        /\ \A i \in 1..Len(all_disks) :
              \E k \in 1..Len(Descriptors) : Descriptors[k].name = all_disks[i]
        /\ \A k \in 1..Len(Descriptors) :
              LET d == Descriptors[k]
                  f == FactsOf(d.name)
              IN  /\ "type" \in f.failed => d.type = "Unknown"
                  /\ "model" \in f.failed => d.model = ""
                  /\ "serial" \in f.failed => d.serial = ""
                  /\ "mounted" \in f.failed => d.mounted = FALSE
                  /\ "usb" \in f.failed =>
                        ~("reason" \in DOMAIN d /\ d.reason = "external usb disk")
                  /\ d.model \notin ErrorTexts
                  /\ d.serial \notin ErrorTexts

(***************************************************************************)
(*                    Properties: streams, blank lines                     *)
(***************************************************************************)

\* The events of type sync among the events emitted.
MessageEvents == SelectSeq(events, LAMBDA e : e.type = "sync")

\* The lines the process printed that have at least one character.
NonEmptyLines == SelectSeq(proc_printed, LAMBDA l : l # <<>>)

\* C18: a sync stream has one message event per non-empty line the process
\* printed and none for a blank line: no message event has an empty
\* message, and when the stream is over the number of message events is
\* the number of non-empty lines printed.
C18_NoEventForBlankLine ==
    /\ \A i \in 1..Len(MessageEvents) : MessageEvents[i].message # <<>>
    /\ sy_pc = "done" => Len(MessageEvents) = Len(NonEmptyLines)

(***************************************************************************)
(*                    Properties: parity configuration                     *)
(***************************************************************************)

\* The text writelines produces from the first k elements of the list,
\* cut at its newlines: the lines that are complete and the line that is
\* still open, each line as the directives it holds.
RECURSIVE SplitLines(_, _)
SplitLines(chunks, k) ==
    IF k = 0 THEN [lines |-> <<>>, cur |-> <<>>]
    ELSE LET prev == SplitLines(chunks, k - 1)
             c    == chunks[k]
             led  == IF c.lead = 1
                     THEN [lines |-> Append(prev.lines, prev.cur), cur |-> <<>>]
                     ELSE prev
             cur  == IF c.kw = "" THEN led.cur
                     ELSE Append(led.cur, [kw |-> c.kw, n |-> c.n])
         IN  IF c.trail = 1
             THEN [lines |-> Append(led.lines, cur), cur |-> <<>>]
             ELSE [lines |-> led.lines, cur |-> cur]

\* The lines of the file written from the list.
FileLines(chunks) ==
    LET r == SplitLines(chunks, Len(chunks))
    IN  IF r.cur = <<>> THEN r.lines ELSE Append(r.lines, r.cur)

\* How many lines of the file consist of exactly one directive kw.
OwnLines(file, kw) ==
    Cardinality({i \in 1..Len(file) : Len(file[i]) = 1 /\ file[i][1].kw = kw})

\* C19: for a plan with n >= 1 data disks the written snapraid.conf has,
\* each as a line of its own, exactly one parity line, exactly n + 1
\* content lines (/var and one per data disk), exactly n data lines, and
\* the lines block_size 256 and autosave 500.
C19_ConfigDirectivesOnOwnLines ==
    (snapraid_conf # <<>> /\ Len(prepared_data) >= 1) =>
        LET file == FileLines(snapraid_conf)
            n    == Len(prepared_data)
        IN  /\ OwnLines(file, "parity") = 1
            /\ OwnLines(file, "content") = n + 1
            /\ OwnLines(file, "data") = n
            /\ \E i \in 1..Len(file) : file[i] = <<[kw |-> "block_size", n |-> 256]>>
            /\ \E i \in 1..Len(file) : file[i] = <<[kw |-> "autosave", n |-> 500]>>

(***************************************************************************)
(*                    Properties: order of the provisioning steps          *)
(***************************************************************************)

\* Call k of prepare_disk (0 for parity, i for the i-th data disk) has
\* executed all its commands.
Prepared(k) ==
    Cardinality({i \in 1..Len(ops) : ops[i].call = k}) = PrepareCommands

\* The disk that call k of prepare_disk is to work on.
PlanDisk(k) == IF k = 0 THEN parity_disk ELSE data_disks[k]

\* A table by the kind and the mount point of its lines, the identifiers
\* left aside.
MountPointsOf(table) ==
    [i \in 1..Len(table) |-> [kind |-> table[i].kind, mnt |-> table[i].mnt]]

\* Every blkid of the current plan ends well.
AllOk == [i \in 0..Len(prepared_data) |-> "ok"]

\* The lines are what setup_fstab writes for the current plan: the header,
\* the entry of /mnt/parity and the entries of /mnt/disk{number} in the
\* order of prepared_data, each with a text get_uuid may return for its
\* disk.
WrittenBySetupFstab(lines) ==
    /\ Len(lines) = 2 + Len(prepared_data)
    /\ lines[1] = FstabHeader
    /\ \E u \in UuidsOf(parity_disk) :
          lines[2] = FstabEntry(u, [base |-> "parity", n |-> 0])
    /\ \A i \in 1..Len(prepared_data) :
          \E u \in UuidsOf(prepared_data[i].disk) :
              lines[2 + i] = FstabEntry(u, [base |-> "disk",
                                            n |-> prepared_data[i].number])

\* StageIndex as a table over the statements of prepare_disk.
StageIndexOf ==
    [name \in {PrepareProgram[i].name : i \in 1..Len(PrepareProgram)} |->
        StageIndex(name)]

\* The place of a command in the order of a run: the size queries of
\* setup_automatic (-2), the calls of prepare_disk by their number, the
\* commands of the configuration writers last.
OpRank(i) ==
    IF ops[i].call = -1 THEN Len(data_disks) + 1 ELSE ops[i].call

\* C20: the operations of setup_manual happen in this order: preparation
\* of the parity disk, preparation of each data disk in list order, the
\* mount entries, the pool entry, snapraid.conf; no configuration artifact
\* is written (and no command of the configuration writers is run) before
\* every disk of the plan has been prepared, and a successful run has done
\* all of it.
C20_StepsInOrder ==
    /\ \A i \in 1..(Len(ops) - 1) :
          /\ OpRank(i) <= OpRank(i + 1)
          /\ (ops[i].call >= 0 /\ ops[i].call = ops[i + 1].call) =>
                StageIndexOf[ops[i].op] < StageIndexOf[ops[i + 1].op]
    /\ \A i \in 1..Len(ops) :
          ops[i].call >= 0 =>
            /\ ops[i].call <= Len(data_disks)
            /\ ops[i].disk = PlanDisk(ops[i].call)
    /\ \A k \in 0..Len(data_disks) :
          \* a later call or a configuration writer has begun (the last
          \* command is the latest in the order), or the table is written
          (fstab # <<>> \/ (ops # <<>> /\ OpRank(Len(ops)) > k))
            => Prepared(k)
    /\ fstab # <<>> =>
          /\ WrittenBySetupFstab(SubSeq(fstab, 1, 2 + Len(data_disks)))
          /\ \A i \in 1..Len(fstab) :
                fstab[i] = MergerfsEntry => i = 3 + Len(data_disks)
    /\ snapraid_conf # <<>> =>
          /\ Len(fstab) = 3 + Len(data_disks)
          /\ fstab[Len(fstab)] = MergerfsEntry
    /\ SetupSucceeded => snapraid_conf # <<>>

\* A run over a parity disk and two other, different data disks has ended
\* in success, with all three disks prepared and all artifacts written.
C20_Witness ==
    /\ SetupSucceeded
    /\ Len(data_disks) = 2
    /\ data_disks[1] # data_disks[2]
    /\ parity_disk \notin Range(data_disks)
    /\ \A k \in 0..2 : Prepared(k)
    /\ Len(fstab) = 5
    /\ snapraid_conf # <<>>

(***************************************************************************)
(*                    Properties: step percentages                         *)
(***************************************************************************)

\* The percentage a equals n/d * 100.
PctIsRatio(a, n, d) == a.num * d = 100 * n * a.den

\* C21 as stated: total_steps = 1 + n + 3, and the event setup_manual
\* emits before its k-th step carries (k - 1)/total_steps * 100, the
\* share of the steps already finished.
C21_PercentageOfFinishedSteps ==
    (sm_pc # "idle" /\ has_callback) =>
        /\ total_steps = 1 + Len(data_disks) + 3
        /\ \A k \in 1..Len(OrchestratorEvents) :
              PctIsRatio(OrchestratorEvents[k].pct, k - 1, total_steps)

\* C21 amended: total_steps = 1 + n + 3, setup_manual has emitted one
\* event for each step it has begun, and the event emitted before the
\* k-th step carries k/total_steps * 100: the step about to begin is
\* counted, so the first event is above 0 and the last is 100.
C21_PercentageOfBegunSteps ==
    (sm_pc # "idle" /\ has_callback) =>
        /\ total_steps = 1 + Len(data_disks) + 3
        /\ Len(OrchestratorEvents) = current_step
        /\ current_step <= total_steps
        /\ \A k \in 1..Len(OrchestratorEvents) :
              PctIsRatio(OrchestratorEvents[k].pct, k, total_steps)

\* A run over two data disks has emitted its six step events: the third
\* carries 50 and the sixth 100.
C21_Witness ==
    /\ sm_pc = "done"
    /\ has_callback
    /\ Len(data_disks) = 2
    /\ total_steps = 6
    /\ Len(OrchestratorEvents) = 6
    /\ PctIs(OrchestratorEvents[3].pct, 50)
    /\ PctIs(OrchestratorEvents[6].pct, 100)

(***************************************************************************)
(*                    Properties: the preparation pipeline                 *)
(***************************************************************************)

\* The commands call k of prepare_disk has executed, in order.
CommandsOfCall(k) ==
    LET mine == SelectSeq(ops, LAMBDA o : o.call = k)
    IN  [i \in 1..Len(mine) |-> mine[i].op]

\* The positions in the sink of the events of setup_manual itself.
OrchestratorPositions ==
    SelectSeq([i \in 1..Len(sink) |-> i],
              LAMBDA i : sink[i].step \in OrchestratorSteps)

\* The events call k of prepare_disk has delivered to the sink, in order:
\* those that follow the (k + 1)-th event of setup_manual and precede its
\* next one.
EventsOfCall(k) ==
    LET pos == OrchestratorPositions
    IN  IF k + 1 > Len(pos) THEN <<>>
        ELSE SubSeq(sink, pos[k + 1] + 1,
                    IF k + 2 <= Len(pos) THEN pos[k + 2] - 1 ELSE Len(sink))

IsPrefix(s, t) == Len(s) <= Len(t) /\ s = SubSeq(t, 1, Len(s))

\* The stages of prepare in their order: unmount, wipe signatures, zero
\* the first 100 MiB, partition table, partition, reread and settle,
\* format.
StageOrder ==
    <<"umount", "wipefs", "dd", "mklabel", "mkpart", "partprobe", "sleep",
      "mkfs">>

\* The percentages prepare reports, in their order.
StagePercentages == <<0, 20, 40, 60, 80, 100>>

\* Call k of prepare_disk has returned.
CallReturned(k) == k < idx \/ (k = idx /\ sm_pc \notin {"idle", "prepare"})

\* C22: one call of prepare_disk with a sink executes its stages in the
\* fixed order unmount, wipe, zero, partition table, partition, reread and
\* settle, format, and delivers to the sink exactly 6 events with the
\* percentages 0, 20, 40, 60, 80, 100 in this order, the one with 100 only
\* after the format stage.
C22_PrepareStagesAndEvents ==
    (sm_pc # "idle" /\ has_callback) =>
        \A k \in 0..idx :
            LET cmds == CommandsOfCall(k)
                evs  == EventsOfCall(k)
            IN  /\ IsPrefix(cmds, StageOrder)
                /\ Len(evs) <= Len(StagePercentages)
                /\ \A i \in 1..Len(evs) : PctIs(evs[i].pct, StagePercentages[i])
                /\ Len(evs) = 6 => cmds = StageOrder
                /\ CallReturned(k) => (cmds = StageOrder /\ Len(evs) = 6)
                /\ \A i \in 1..Len(evs) :
                      "percentage" \in DOMAIN emit_progress(evs[i]) <=> i > 1

\* The preparation of the second data disk has returned: 8 commands and
\* 6 events, the last one 100.
C22_Witness ==
    /\ has_callback
    /\ idx = 2
    /\ CallReturned(2)
    /\ CommandsOfCall(2) = StageOrder
    /\ Len(EventsOfCall(2)) = 6
    /\ PctIs(EventsOfCall(2)[6].pct, 100)

(***************************************************************************)
(*                    Properties: concurrency                              *)
(***************************************************************************)

\* The tasks whose snapraid process is running.
RunningJobs == {i \in 1..Len(jobs) : jobs[i].state = "running"}

\* C23: taking the adapter with its caller in app.py (user-triggered sync,
\* user-triggered scrub, scheduled maintenance), at most one snapraid
\* sync/scrub process runs at a time, under every interleaving.
C23_AtMostOneParityProcess == Cardinality(RunningJobs) <= 1

\* Request i is in the middle of a prepare_disk call on disk d: it has
\* executed some of the commands on d and not yet all.
MidPreparation(i, d) ==
    /\ requests[i].stage = "prepare"
    /\ requests[i].plan[requests[i].call] = d
    /\ requests[i].cmds \in 1..(PrepareCommands - 1)

\* C24: under every interleaving of concurrent setup requests at most one
\* destructive preparation runs against a disk at a time: no two requests
\* are in the middle of a prepare_disk call on the same disk.
C24_OnePreparationPerDisk ==
    \A i, j \in 1..Len(requests) :
        \A d \in {"sdb", "sdc"} :
            (MidPreparation(i, d) /\ MidPreparation(j, d)) => i = j

(***************************************************************************)
(*                    Properties: the persistent files                     *)
(***************************************************************************)

\* What a successful run of the current plan adds to /etc/fstab when its
\* blkid commands end as outcome says: the header, the mount entries and
\* the pool entry.
PlanEntries(outcome) ==
    FstabEntries(parity_disk, prepared_data, outcome) \o <<MergerfsEntry>>

\* The mount entries and the pool entry of the current plan, by kind and
\* mount point.
PlanMountPoints == MountPointsOf(PlanEntries(AllOk))

\* How many copies of the entries the table holds.
Copies(table, entries) ==
    Cardinality({i \in 1..(Len(table) - Len(entries) + 1) :
                    SubSeq(table, i, i + Len(entries) - 1) = entries})

\* C25: a provisioning run only appends to /etc/fstab: what the table
\* held before the run is an unchanged prefix of what it holds during and
\* after it, and a successful run adds exactly one copy of the plan's
\* mount entries and pool entry, so that the k-th successful run of a plan
\* leaves k copies; /etc/snapraid.conf holds exactly one copy of the
\* configuration however many runs there were.
C25_MountTableOnlyGrows ==
    /\ IsPrefix(fstab_before, fstab)
    /\ \E host \in HostTables : IsPrefix(host, fstab)
    /\ (runs >= 1 /\ SetupSucceeded) =>
          /\ Len(fstab) = Len(fstab_before) + Len(PlanMountPoints)
          /\ WrittenBySetupFstab(SubSeq(fstab, Len(fstab_before) + 1,
                                        Len(fstab) - 1))
          /\ fstab[Len(fstab)] = MergerfsEntry
          /\ Copies(MountPointsOf(fstab), PlanMountPoints)
                = Copies(MountPointsOf(fstab_before), PlanMountPoints) + 1
          /\ Copies(MountPointsOf(fstab), PlanMountPoints) <= runs
          /\ snapraid_conf = SnapraidConfig(parity_disk, prepared_data)
          /\ Cardinality({i \in 1..Len(snapraid_conf) :
                             snapraid_conf[i].kw = "parity"}) = 1

\* The second run of a plan with a data disk has succeeded on a host whose
\* table had the root entry: the table holds that entry and two copies of
\* the plan's entries.
C25_Witness ==
    /\ runs = 2
    /\ SetupSucceeded
    /\ Len(data_disks) >= 1
    /\ fstab[1].dev = "sda1"
    /\ Copies(MountPointsOf(fstab), PlanMountPoints) = 2
    /\ Len(fstab) = 1 + 2 * Len(PlanMountPoints)

(***************************************************************************)
(*                    Properties: numbering of the data disks              *)
(***************************************************************************)

\* The mkfs operation of call k of prepare_disk, when it has been executed.
FormatsOf(k) == {i \in 1..Len(ops) : ops[i].call = k /\ ops[i].op = "mkfs"}

\* The numbers carried by the pairs of the returned summary.
SummaryNumbers == [i \in 1..Len(prepared_data) |-> prepared_data[i].number]

\* Labels, mount entries and summary of a successful run agree on the
\* position of every data disk: the i-th data disk is formatted once with
\* label disk{i}, the parity disk with label parity; the appended mount
\* entries are /mnt/parity for the parity disk and /mnt/disk{i} for the
\* i-th data disk; the i-th pair of the summary is (i-th disk, disk{i});
\* the numbers of the summary are 1..n in order.
LabelsMountsSummaryAgree ==
    SetupSucceeded =>
        LET n == Len(data_disks)
        IN  /\ \A k \in 0..n :
                  /\ Cardinality(FormatsOf(k)) = 1
                  /\ \A i \in FormatsOf(k) :
                        /\ ops[i].disk = PlanDisk(k)
                        /\ ops[i].label = IF k = 0
                                          THEN [base |-> "parity", n |-> 0]
                                          ELSE [base |-> "disk", n |-> k]
            /\ Len(fstab) >= 2 + n
            /\ \E u \in UuidsOf(parity_disk) :
                  fstab[2] = [kind |-> "mount", dev |-> u,
                              mnt |-> [base |-> "parity", n |-> 0]]
            /\ \A i \in 1..n : \E u \in UuidsOf(data_disks[i]) :
                  fstab[2 + i] = [kind |-> "mount", dev |-> u,
                                  mnt |-> [base |-> "disk", n |-> i]]
            /\ Len(prepared_data) = n
            /\ \A i \in 1..n :
                  prepared_data[i] = [disk |-> data_disks[i],
                                      label |-> [base |-> "disk", n |-> i],
                                      number |-> i]
            /\ SummaryNumbers = [i \in 1..n |-> i]

\* Number i is a data source of the written snapraid.conf: a line of the
\* file is the directive "data d{i} /mnt/disk{i}" and nothing else.
DataSource(i) ==
    \E l \in 1..Len(FileLines(snapraid_conf)) :
        FileLines(snapraid_conf)[l] = <<[kw |-> "data", n |-> i]>>

\* C26: in every successful run over data disks d1..dn the i-th data disk
\* is formatted with label disk{i}, has the mount entry /mnt/disk{i}, is
\* the data source d{i} at /mnt/disk{i} of snapraid.conf and is the i-th
\* pair of the returned summary; the parity disk is formatted with label
\* parity and mounted at /mnt/parity; the numbers 1..n are used once each.
C26_NumberingAgreesEverywhere ==
    /\ LabelsMountsSummaryAgree
    /\ SetupSucceeded => \A i \in 1..Len(data_disks) : DataSource(i)

\* A successful run over two data disks whose labels, mount entries and
\* summary agree, while neither number is a data source of snapraid.conf.
C26_Witness ==
    /\ SetupSucceeded
    /\ Len(data_disks) = 2
    /\ prepared_data[2].label = [base |-> "disk", n |-> 2]
    /\ fstab[4].mnt = [base |-> "disk", n |-> 2]
    /\ ~DataSource(1)
    /\ ~DataSource(2)

\* A successful run over one data disk, where the claim's numbering holds
\* in the file as well.
C26_OneDiskIsDataSource ==
    (SetupSucceeded /\ Len(data_disks) = 1) => DataSource(1)


=============================================================================
